---- MODULE Spec2Model ----
(***************************************************************************)
(* Quiz attempt lifecycle (session controller + expiry cron) and the       *)
(* grading service of QUIZ.server, as a state machine.                     *)
(*                                                                         *)
(* Text is a sequence of one-character strings; a JavaScript value is a    *)
(* record [k, n, s] with k in {"undef","null","num","str"}.  NaN is the    *)
(* number NaN below.  Dates are integers, the null date is NULL.           *)
(***************************************************************************)
EXTENDS Integers, Sequences, FiniteSets, TLC

\* ------------------------------------------------------------------ bounds
MaxTime == 2
MaxSessions == 1
NumProcs == 2
MaxAttempts == 2

\* --------------------------------------------------------------- JS values
NULL == -1
NaN == -999

Undef == [k |-> "undef", n |-> 0, s |-> <<>>]
Null == [k |-> "null", n |-> 0, s |-> <<>>]
Num(n) == [k |-> "num", n |-> n, s |-> <<>>]
Str(s) == [k |-> "str", n |-> 0, s |-> s]

Digits == <<"0", "1", "2", "3", "4", "5", "6", "7", "8", "9">>
LowerChars == <<"a","b","c","d","e","f","g","h","i","j","k","l","m",
                "n","o","p","q","r","s","t","u","v","w","x","y","z">>
UpperChars == <<"A","B","C","D","E","F","G","H","I","J","K","L","M",
                "N","O","P","Q","R","S","T","U","V","W","X","Y","Z">>

IndexIn(c, seq) ==
  IF \E i \in 1..Len(seq) : seq[i] = c
  THEN CHOOSE i \in 1..Len(seq) : seq[i] = c
  ELSE 0

IsDigit(c) == IndexIn(c, Digits) > 0
IsSpace(c) == c = " "
\* \w of a JavaScript regular expression: [A-Za-z0-9_]
IsWordChar(c) ==
  IsDigit(c) \/ IndexIn(c, LowerChars) > 0 \/ IndexIn(c, UpperChars) > 0 \/ c = "_"

toLowerCase(s) ==
  [i \in 1..Len(s) |->
     IF IndexIn(s[i], UpperChars) > 0 THEN LowerChars[IndexIn(s[i], UpperChars)] ELSE s[i]]

RECURSIVE trimStart(_)
trimStart(s) == IF s # <<>> /\ IsSpace(Head(s)) THEN trimStart(Tail(s)) ELSE s

RECURSIVE trimEnd(_)
trimEnd(s) ==
  IF s # <<>> /\ IsSpace(s[Len(s)]) THEN trimEnd(SubSeq(s, 1, Len(s) - 1)) ELSE s

trim(s) == trimEnd(trimStart(s))

RECURSIVE DecimalValue(_)
DecimalValue(s) ==
  IF s = <<>> THEN 0
  ELSE 10 * DecimalValue(SubSeq(s, 1, Len(s) - 1)) + (IndexIn(s[Len(s)], Digits) - 1)

RECURSIVE DecimalText(_)
DecimalText(n) ==
  IF n < 10 THEN <<Digits[n + 1]>> ELSE Append(DecimalText(n \div 10), Digits[(n % 10) + 1])

\* String(v): text of a JavaScript value
ToStr(v) ==
  CASE v.k = "str" -> v.s
    [] v.k = "num" -> IF v.n = NaN THEN <<"N","a","N">> ELSE DecimalText(v.n)
    [] v.k = "null" -> <<"n","u","l","l">>
    [] OTHER -> <<"u","n","d","e","f","i","n","e","d">>

\* Number(text): the empty or blank text is 0, a run of digits its value,
\* anything else NaN (the texts of the model carry no sign, point or exponent)
TextToNumber(s) ==
  LET t == trim(s) IN
  IF t = <<>> THEN 0
  ELSE IF \A i \in 1..Len(t) : IsDigit(t[i]) THEN DecimalValue(t)
  ELSE NaN

\* Number(v)
ToNumber(v) ==
  CASE v.k = "num" -> v.n
    [] v.k = "null" -> 0
    [] v.k = "undef" -> NaN
    [] OTHER -> TextToNumber(v.s)

\* truthiness of a JavaScript value (used by `x || y`)
Truthy(v) ==
  CASE v.k = "num" -> v.n # 0 /\ v.n # NaN
    [] v.k = "str" -> v.s # <<>>
    [] OTHER -> FALSE

OrElse(a, b) == IF Truthy(a) THEN a ELSE b

\* ---------------------------------------------------------- grading service
\* the characters normalizeText keeps: [\w\s'-]
KeptByNormalize(c) == IsWordChar(c) \/ IsSpace(c) \/ c = "'" \/ c = "-"

RECURSIVE StripPunctuation(_)
StripPunctuation(s) ==
  IF s = <<>> THEN <<>>
  ELSE IF KeptByNormalize(Head(s)) THEN <<Head(s)>> \o StripPunctuation(Tail(s))
  ELSE StripPunctuation(Tail(s))

RECURSIVE CollapseSpaces(_)
CollapseSpaces(s) ==
  IF Len(s) < 2 THEN s
  ELSE IF IsSpace(s[1]) /\ IsSpace(s[2]) THEN CollapseSpaces(Tail(s))
  ELSE <<Head(s)>> \o CollapseSpaces(Tail(s))

normalizeText(v) ==
  IF v.k \in {"null", "undef"} THEN <<>>
  ELSE CollapseSpaces(StripPunctuation(toLowerCase(trim(ToStr(v)))))

\* s.split(/\s+/): the pieces between runs of spaces, empty pieces kept at
\* the ends as JavaScript keeps them
RECURSIVE SplitSpaces(_, _)
SplitSpaces(s, cur) ==
  IF s = <<>> THEN <<cur>>
  ELSE IF IsSpace(Head(s))
       THEN <<cur>> \o SplitSpaces(trimStart(s), <<>>)
       ELSE SplitSpaces(Tail(s), Append(cur, Head(s)))

RECURSIVE NonEmptyOnes(_)
NonEmptyOnes(ss) ==
  IF ss = <<>> THEN <<>>
  ELSE IF Head(ss) = <<>> THEN NonEmptyOnes(Tail(ss))
  ELSE <<Head(ss)>> \o NonEmptyOnes(Tail(ss))

sanitizeUserShortAnswer(raw) ==
  IF raw.k \in {"null", "undef"} THEN <<>>
  ELSE LET parts == NonEmptyOnes(SplitSpaces(trim(ToStr(raw)), <<>>))
       IN IF Len(parts) > 0 THEN toLowerCase(parts[1]) ELSE <<>>

Min2(a, b) == IF a < b THEN a ELSE b
Max2(a, b) == IF a > b THEN a ELSE b

\* one row of the DP table: dp[i][0..m] from dp[i-1][0..m] (index j+1 holds dp[.][j]);
\* every row has m + 1 cells, and LevRows fills a row before it starts the next
RECURSIVE LevRow(_, _, _, _, _)
LevRow(prev, c, t, j, acc) ==
  IF j > Len(t) THEN acc
  ELSE LET cost == IF c = t[j] THEN 0 ELSE 1
           v == Min2(Min2(prev[j + 1] + 1, acc[j] + 1), prev[j] + cost)
       IN LevRow(prev, c, t, j + 1, Append(acc, v))

RECURSIVE LevRows(_, _, _, _)
LevRows(prev, s, t, i) ==
  IF i > Len(s) THEN prev
  ELSE LET row == LevRow(prev, s[i], t, 1, <<i>>)
       IN IF Len(row) = Len(prev) THEN LevRows(row, s, t, i + 1) ELSE <<>>

levenshtein(s, t) ==
  IF Len(s) = 0 THEN Len(t)
  ELSE IF Len(t) = 0 THEN Len(s)
  ELSE LevRows([j \in 1..(Len(t) + 1) |-> j - 1], s, t, 1)[Len(t) + 1]

\* similarity = 1 - dist / maxLen, kept as the pair <<dist, maxLen>>
similarity(s, t) ==
  LET maxLen == Max2(Len(s), Len(t))
  IN IF maxLen = 0 THEN <<0, 1>> ELSE <<levenshtein(s, t), maxLen>>

\* mutant: a threshold of 0.6
thresholdLoose == <<3, 5>>

\* sim >= 0.8, i.e. 1 - d/m >= 4/5, i.e. 5 * d <= m
threshold == <<4, 5>>
AtLeastThreshold(sim) ==
  threshold[2] * (sim[2] - sim[1]) >= threshold[1] * sim[2]

NoNumber == -998

smallWords == <<<<"z","e","r","o">>, <<"o","n","e">>, <<"t","w","o">>, <<"t","h","r","e","e">>, <<"f","o","u","r">>, <<"f","i","v","e">>, <<"s","i","x">>, <<"s","e","v","e","n">>, <<"e","i","g","h","t">>, <<"n","i","n","e">>, <<"t","e","n">>, <<"e","l","e","v","e","n">>, <<"t","w","e","l","v","e">>, <<"t","h","i","r","t","e","e","n">>, <<"f","o","u","r","t","e","e","n">>, <<"f","i","f","t","e","e","n">>, <<"s","i","x","t","e","e","n">>, <<"s","e","v","e","n","t","e","e","n">>, <<"e","i","g","h","t","e","e","n">>, <<"n","i","n","e","t","e","e","n">>>>
tensWords == <<<<"t","w","e","n","t","y">>, <<"t","h","i","r","t","y">>, <<"f","o","r","t","y">>, <<"f","i","f","t","y">>, <<"s","i","x","t","y">>, <<"s","e","v","e","n","t","y">>, <<"e","i","g","h","t","y">>, <<"n","i","n","e","t","y">>>>
hundredWord == <<"h","u","n","d","r","e","d">>
thousandWord == <<"t","h","o","u","s","a","n","d">>

\* text.replace(/[-,]/g, " ")
DashCommaToSpace(s) == [i \in 1..Len(s) |-> IF s[i] \in {"-", ","} THEN " " ELSE s[i]]

\* mutant: a token that is no number word is skipped
RECURSIVE WordLoopSkipping(_, _, _)
WordLoopSkipping(tokens, total, current) ==
  IF tokens = <<>> THEN total + current
  ELSE LET w == Head(tokens)
           rest == Tail(tokens)
       IN IF IndexIn(w, smallWords) > 0
            THEN WordLoopSkipping(rest, total, current + (IndexIn(w, smallWords) - 1))
          ELSE IF IndexIn(w, tensWords) > 0
            THEN WordLoopSkipping(rest, total, current + 10 * (IndexIn(w, tensWords) + 1))
          ELSE IF w = hundredWord
            THEN WordLoopSkipping(rest, total, (IF current = 0 THEN 1 ELSE current) * 100)
          ELSE IF w = thousandWord
            THEN WordLoopSkipping(rest, total + (IF current = 0 THEN 1 ELSE current) * 1000, 0)
          ELSE IF TextToNumber(w) # NaN
            THEN WordLoopSkipping(rest, total, current + TextToNumber(w))
          ELSE WordLoopSkipping(rest, total, current)

RECURSIVE WordLoop(_, _, _)
WordLoop(tokens, total, current) ==
  IF tokens = <<>> THEN total + current
  ELSE LET w == Head(tokens)
           rest == Tail(tokens)
       IN IF IndexIn(w, smallWords) > 0
            THEN WordLoop(rest, total, current + (IndexIn(w, smallWords) - 1))
          ELSE IF IndexIn(w, tensWords) > 0
            THEN WordLoop(rest, total, current + 10 * (IndexIn(w, tensWords) + 1))
          ELSE IF w = hundredWord
            THEN WordLoop(rest, total, (IF current = 0 THEN 1 ELSE current) * 100)
          ELSE IF w = thousandWord
            THEN WordLoop(rest, total + (IF current = 0 THEN 1 ELSE current) * 1000, 0)
          ELSE IF TextToNumber(w) # NaN
            THEN WordLoop(rest, total, current + TextToNumber(w))
          ELSE NoNumber

\* the argument is a text (callers pass strings only); "" is falsy
wordToNumber(text) ==
  IF text = <<>> THEN NoNumber
  ELSE LET tokens == NonEmptyOnes(SplitSpaces(DashCommaToSpace(trim(toLowerCase(text))), <<>>))
       IN IF Len(tokens) = 0 THEN NoNumber ELSE WordLoop(tokens, 0, 0)

parseMaybeNumber(v) ==
  IF v.k \in {"null", "undef"} THEN NoNumber
  ELSE LET Parsed(str, n) == IF Len(str) = 0 THEN NoNumber
                              ELSE IF n # NaN THEN n
                              ELSE wordToNumber(str)
           Parse(str) == Parsed(str, TextToNumber(str))
       IN Parse(toLowerCase(trim(ToStr(v))))

\* mutant: yes and y are not read as true
truthyNarrow == {<<"t","r","u","e">>, <<"t">>, <<"1">>}

truthy == {<<"t","r","u","e">>, <<"t">>, <<"1">>, <<"y","e","s">>, <<"y">>}
falsy == {<<"f","a","l","s","e">>, <<"f">>, <<"0">>, <<"n","o">>, <<"n">>}

NoSimilarity == <<0, 0>>

gradeQuestion(question, userAnswer) ==
  IF question.type = "mcq" THEN
    LET Mcq(expectedIndex, uaIndex) ==
          [isCorrect |-> uaIndex # NaN /\ expectedIndex # NaN /\ uaIndex = expectedIndex,
           expected |-> IF expectedIndex # NaN
                           /\ expectedIndex + 1 \in 1..Len(question.choices)
                        THEN OrElse(Str(question.choices[expectedIndex + 1]), Null)
                        ELSE Null,
           similarity |-> NoSimilarity, numericMatch |-> FALSE]
    IN Mcq(ToNumber(question.answer_index), ToNumber(userAnswer))
  ELSE IF question.type = "tf" THEN
    LET Tf(expNormalized, ua) ==
          [isCorrect |-> IF expNormalized \in truthy \cup falsy /\ ua \in truthy \cup falsy
                         THEN (expNormalized \in truthy) = (ua \in truthy)
                         ELSE expNormalized = ua,
           expected |-> question.answer_text,
           similarity |-> NoSimilarity, numericMatch |-> FALSE]
    IN Tf(normalizeText(OrElse(question.answer_text, Str(<<>>))), normalizeText(userAnswer))
  ELSE
    LET Fuzzy(sim) ==
          [isCorrect |-> AtLeastThreshold(sim), expected |-> question.answer_text,
           similarity |-> sim, numericMatch |-> FALSE]
        Compare(expectedSanitized, uaSanitized, expNum, uaNum) ==
          IF expectedSanitized # <<>> /\ uaSanitized = expectedSanitized
            THEN [isCorrect |-> TRUE, expected |-> question.answer_text,
                  similarity |-> NoSimilarity, numericMatch |-> FALSE]
          ELSE IF expNum # NoNumber /\ uaNum # NoNumber /\ expNum = uaNum
            THEN [isCorrect |-> TRUE, expected |-> question.answer_text,
                  similarity |-> NoSimilarity, numericMatch |-> TRUE]
          ELSE Fuzzy(similarity(expectedSanitized, uaSanitized))
        Short(expectedRaw, uaSanitized) ==
          Compare(SplitSpaces(normalizeText(expectedRaw), <<>>)[1], uaSanitized,
                  parseMaybeNumber(expectedRaw), parseMaybeNumber(Str(uaSanitized)))
    IN Short(Str(ToStr(OrElse(question.answer_text, Str(<<>>)))),
             sanitizeUserShortAnswer(userAnswer))

\* answers[qid] of an object built by assignments in sequence order
RECURSIVE Lookup(_, _)
Lookup(pairs, qid) ==
  IF pairs = <<>> THEN Undef
  ELSE IF pairs[Len(pairs)].qid = qid THEN pairs[Len(pairs)].userAnswer
  ELSE Lookup(SubSeq(pairs, 1, Len(pairs) - 1), qid)

gradeDetail(q, answers) ==
  LET Detail(userAnswer, result) ==
        [qid |-> q.qid, isCorrect |-> result.isCorrect, expected |-> result.expected,
         similarity |-> result.similarity, numericMatch |-> result.numericMatch,
         userAnswer |-> IF userAnswer = Undef THEN Null ELSE userAnswer,
         question |-> q.question, explanation |-> OrElse(q.explanation, Null)]
      Graded(userAnswer) == Detail(userAnswer, gradeQuestion(q, userAnswer))
  IN Graded(Lookup(answers, q.qid))

gradeAll(questions, answers) ==
  LET Totals(details) ==
        [totalCorrect |-> Cardinality({i \in 1..Len(details) : details[i].isCorrect}),
         details |-> details]
  IN Totals([i \in 1..Len(questions) |-> gradeDetail(questions[i], answers)])

\* ------------------------------------------------------------ quiz documents
Users == {1, 2}

\* a quiz question as stored in Quiz.questions (type Array, any shape);
\* qid "" stands for a question without qid
QuizQuestions1 ==
  << [qid |-> "q1", type |-> "mcq", difficulty |-> "easy", question |-> "pick",
      choices |-> << <<"A">>, <<"B">> >>, answer_index |-> Num(1),
      answer_text |-> Undef, explanation |-> Str(<<"x">>)],
     [qid |-> "", type |-> "tf", difficulty |-> "easy", question |-> "sure",
      choices |-> <<>>, answer_index |-> Undef,
      answer_text |-> Str(<<"t","r","u","e">>), explanation |-> Undef] >>

QuizQuestions3 ==
  << [qid |-> "q1", type |-> "short", difficulty |-> "hard", question |-> "count",
      choices |-> <<>>, answer_index |-> Undef,
      answer_text |-> Str(<<"5">>), explanation |-> Str(<<"y">>)] >>

\* Quiz documents: 1 is timed, 2 is timed, has no question, opens at 1 and
\* closes at 1, 3 is untimed; each has a creator.  Anything else is not in
\* the collection.
QuizDB ==
  << [creator |-> 2, questions |-> QuizQuestions1,
      settings |-> [attemptDurationSeconds |-> 1, shuffleQuestions |-> FALSE,
                    timeLimitSeconds |-> NULL],
      startAt |-> NULL, endAt |-> NULL],
     [creator |-> 2, questions |-> <<>>,
      settings |-> [attemptDurationSeconds |-> NULL, shuffleQuestions |-> FALSE,
                    timeLimitSeconds |-> 1],
      startAt |-> 1, endAt |-> 1],
     [creator |-> 2, questions |-> QuizQuestions3,
      settings |-> [attemptDurationSeconds |-> NULL, shuffleQuestions |-> FALSE,
                    timeLimitSeconds |-> NULL],
      startAt |-> NULL, endAt |-> NULL] >>

QuizIds == 1..(Len(QuizDB) + 1)

\* `q${i + 1}` with i the zero-based position
PositionalQid == <<"q1", "q2", "q3">>

\* a ?? null
Coalesce(v) == IF v.k \in {"undef", "null"} THEN Null ELSE v

questionsSnapshot(quiz) ==
  [i \in 1..Len(quiz.questions) |->
     LET q == quiz.questions[i] IN
     [qid |-> IF q.qid # "" THEN q.qid ELSE PositionalQid[i],
      type |-> q.type, difficulty |-> q.difficulty, question |-> q.question,
      choices |-> q.choices,
      answer_index |-> Coalesce(q.answer_index),
      answer_text |-> Coalesce(q.answer_text),
      explanation |-> IF q.explanation.k \in {"undef", "null"} THEN Str(<<>>)
                      ELSE q.explanation]]

\* quiz.settings?.attemptDurationSeconds ?? quiz.settings?.timeLimitSeconds ?? null
durationSeconds(quiz) ==
  IF quiz.settings.attemptDurationSeconds # NULL
  THEN quiz.settings.attemptDurationSeconds
  ELSE quiz.settings.timeLimitSeconds

\* the answers a client sends: [{qid, userAnswer}, ...] or {qid: userAnswer}
Payloads ==
  { <<>>,
    << [qid |-> "q1", userAnswer |-> Num(1)] >>,
    << [qid |-> "q1", userAnswer |-> Num(0)],
       [qid |-> "q2", userAnswer |-> Str(<<"n","o">>)] >> }

\* ------------------------------------------------- aiService.js: callGemini
\* Retry config (the defaults)
MAX_RETRIES == 3
BASE_DELAY_MS == 500

\* statuses of the responses axios rejects with
ErrorStatuses == {400, 404, 429, 499, 500, 503, 599, 600}

\* what instance.post settles with: the response data, an error carrying a
\* response, or an error without response
PostResults ==
  {[ok |-> TRUE, response |-> TRUE, status |-> 200]}
  \cup {[ok |-> FALSE, response |-> TRUE, status |-> st] : st \in ErrorStatuses}
  \cup {[ok |-> FALSE, response |-> FALSE, status |-> NULL]}

\* what a call ended with: the data, the wrapper error with the status it
\* copies, or the no_api_key error
NoOutcome == [kind |-> "none", status |-> NULL]

\* no call under way: key is whether GEMINI_API_KEY is configured, log the
\* errors caught so far, slept the backoffs waited so far
NoCall ==
  [key |-> TRUE, at |-> "idle", attempt |-> 0, log |-> <<>>, slept |-> <<>>,
   outcome |-> NoOutcome]

\* ------------------------------------------------------------------- state
VARIABLES
  gemini,     \* the call of callGemini under way (aiService.js)
  quizzes,    \* the Quiz collection; the _id is the position
  now,        \* the clock (new Date(), Date.now())
  sessions,   \* the QuizSession collection; the _id is the position
  users,      \* the User collection: points and stats of each user
  pc,         \* where each request handler or cron run stands
  loc,        \* its local variables
  resp,       \* the response the last step sent, NoResp when it sent none
  finalized,  \* history: per session, the finalizing writes applied, by writer
  credited    \* history: per session, the stats increments applied, by writer

vars == <<gemini, quizzes, now, sessions, users, pc, loc, resp, finalized, credited>>

Procs == 1..NumProcs
SessionIds == 1..MaxSessions

\* the cron's find(...).limit(200)
SweepLimit == 200

NoLoc ==
  [sid |-> 0, user |-> 0, quiz |-> 0, at |-> NULL, payload |-> <<>>, answers |-> <<>>,
   graded |-> [totalCorrect |-> 0, details |-> <<>>], autoSubmitted |-> FALSE,
   batch |-> <<>>]

NoBody == [none |-> TRUE]
NoResp == [op |-> "none", code |-> 0, user |-> 0, quiz |-> 0, sid |-> 0, body |-> NoBody]

\* a response to a request on a session (req.params.sessionId)
Reply(op, code, u, sid, body) ==
  [op |-> op, code |-> code, user |-> u, quiz |-> 0, sid |-> sid, body |-> body]

\* a response of startQuiz, a request on a quiz (req.params.id)
StartReply(code, u, q, sid, body) ==
  [op |-> "start", code |-> code, user |-> u, quiz |-> q, sid |-> sid, body |-> body]

Error(msg) == [error |-> msg]

Init ==
  /\ gemini = NoCall
  /\ quizzes = QuizDB
  /\ now = 0
  /\ sessions = <<>>
  /\ users = [u \in Users |-> [points |-> 0, quizzesAttempted |-> 0, totalCorrect |-> 0]]
  /\ pc = [p \in Procs |-> "idle"]
  /\ loc = [p \in Procs |-> NoLoc]
  /\ resp = NoResp
  /\ finalized = [s \in SessionIds |-> [user |-> 0, expiry |-> 0]]
  /\ credited = [s \in SessionIds |-> [user |-> 0, expiry |-> 0]]

\* Quiz.findById
QuizFound(q) == q \in 1..Len(quizzes)

\* QuizSession.findById
SessionFound(s) == s \in 1..Len(sessions)

Terminal(session) == session.status \in {"finished", "timed-out"}

\* mutant: the update sets the three fields instead of incrementing them
IncStatsSet(us, u, score) ==
  [us EXCEPT ![u] = [points |-> score, quizzesAttempted |-> 1, totalCorrect |-> score]]

\* User.findByIdAndUpdate(u, {$inc: {points, stats.quizzesAttempted, stats.totalCorrect}})
IncStats(us, u, score) ==
  [us EXCEPT ![u] = [points |-> @.points + score,
                     quizzesAttempted |-> @.quizzesAttempted + 1,
                     totalCorrect |-> @.totalCorrect + score]]

\* an answer subdocument with the AnswerSchema defaults
AnswerDoc(qid, userAnswer, isCorrect) ==
  [qid |-> qid, userAnswer |-> userAnswer, isCorrect |-> isCorrect, timeTakenSeconds |-> 0]

\* answersMap built from stored answers: answersMap[a.qid] = a.userAnswer
AnswersMapOf(answers) ==
  [i \in 1..Len(answers) |-> [qid |-> answers[i].qid, userAnswer |-> answers[i].userAnswer]]

\* the graded answers a finalizer stores, one per detail
AnswersToStore(details) ==
  [i \in 1..Len(details) |->
     AnswerDoc(details[i].qid, details[i].userAnswer, details[i].isCorrect)]

Tick ==
  /\ now < MaxTime
  /\ now' = now + 1
  /\ resp' = NoResp
  /\ UNCHANGED <<gemini, quizzes, sessions, users, pc, loc, finalized, credited>>

\* ------------------------------------------------------------- startQuiz
\* mutant: every position draws a question on its own
ShuffleDraws(n) == [1..n -> 1..n]

\* the orders the swap loop with Math.random() can leave the snapshot in
ShuffleOrders(n) ==
  {f \in [1..n -> 1..n] : \A i, j \in 1..n : i # j => f[i] # f[j]}

NewSession(q, u, questions, expiresAt) ==
  [quiz |-> q, user |-> u, status |-> "in-progress", startedAt |-> now,
   expiresAt |-> expiresAt, finishedAt |-> NULL, autoSubmitted |-> FALSE,
   questions |-> questions, answers |-> <<>>, score |-> 0,
   totalQuestions |-> Len(questions), v |-> 0]

clientQuestion(q) ==
  [qid |-> q.qid, type |-> q.type, difficulty |-> q.difficulty,
   question |-> q.question, choices |-> q.choices]

\* the body startQuiz answers with
StartBody(sid, session) ==
  [sessionId |-> sid, quizId |-> session.quiz, expiresAt |-> session.expiresAt,
   totalQuestions |-> session.totalQuestions,
   questions |-> [i \in 1..Len(session.questions) |-> clientQuestion(session.questions[i])]]

\* quiz.startAt && now < new Date(quiz.startAt)
NotStarted(quiz, at) == quiz.startAt # NULL /\ at < quiz.startAt

\* mutant: a quiz never ends
EndedNever(quiz, at) == FALSE

\* quiz.endAt && now > new Date(quiz.endAt)
Ended(quiz, at) == quiz.endAt # NULL /\ at > quiz.endAt

\* mutant: the single-attempt lookup finds nothing
ExistingFinishedNever(q, u) == FALSE

\* mutant: the lookup finds an attempt of the pair in any status
ExistingAny(q, u) ==
  \E s \in 1..Len(sessions) : sessions[s].quiz = q /\ sessions[s].user = u

\* QuizSession.findOne({quiz, user, status: "finished"})
ExistingFinished(q, u) ==
  \E s \in 1..Len(sessions) :
    sessions[s].quiz = q /\ sessions[s].user = u /\ sessions[s].status = "finished"

\* startQuiz up to session.save(): quiz lookup, availability window, the
\* findOne for a finished attempt, snapshot, shuffle and deadline.  At most
\* cap sessions are ever created: a start that would create one more is not
\* taken.
StartCheckUpTo(p, u, q, cap) ==
  /\ pc[p] = "idle"
  /\ IF ~QuizFound(q)
       THEN /\ resp' = StartReply(404, u, q, 0, Error("Quiz not found"))
            /\ UNCHANGED <<pc, loc>>
     ELSE IF NotStarted(quizzes[q], now)
       THEN /\ resp' = StartReply(400, u, q, 0, Error("Quiz has not started yet"))
            /\ UNCHANGED <<pc, loc>>
     ELSE IF Ended(quizzes[q], now)
       THEN /\ resp' = StartReply(400, u, q, 0, Error("Quiz has ended"))
            /\ UNCHANGED <<pc, loc>>
     ELSE IF ExistingFinished(q, u)
       THEN /\ resp' = StartReply(403, u, q, 0, Error("You have already completed this quiz (single attempt only)"))
            /\ UNCHANGED <<pc, loc>>
     ELSE LET snap == questionsSnapshot(quizzes[q])
              d == durationSeconds(quizzes[q])
              expiresAt == IF d # NULL /\ d > 0 THEN now + d ELSE NULL
          IN /\ Len(sessions) + Cardinality({r \in Procs : pc[r] = "start_save"}) < cap
             /\ \E f \in ShuffleOrders(Len(snap)) :
                  /\ quizzes[q].settings.shuffleQuestions \/ f = [i \in 1..Len(snap) |-> i]
                  /\ loc' = [loc EXCEPT ![p] =
                       [NoLoc EXCEPT !.user = u, !.quiz = q, !.batch =
                          << [id |-> 0,
                              doc |-> NewSession(q, u, [i \in 1..Len(snap) |-> snap[f[i]]],
                                                 expiresAt)] >>]]
             /\ pc' = [pc EXCEPT ![p] = "start_save"]
             /\ resp' = NoResp
  /\ UNCHANGED <<gemini, quizzes, now, sessions, users, finalized, credited>>

StartCheck(p, u, q) == StartCheckUpTo(p, u, q, MaxSessions)

\* session.save() inserts the new document, then the response
StartSave(p) ==
  /\ pc[p] = "start_save"
  /\ LET doc == loc[p].batch[1].doc
         sid == Len(sessions) + 1
     IN /\ sessions' = Append(sessions, doc)
        /\ resp' = StartReply(200, loc[p].user, loc[p].quiz, sid, StartBody(sid, doc))
  /\ pc' = [pc EXCEPT ![p] = "idle"]
  /\ loc' = [loc EXCEPT ![p] = NoLoc]
  /\ UNCHANGED <<gemini, quizzes, now, users, finalized, credited>>

\* mutant: every session belongs to the caller
BelongsToAnyone(session, u) == TRUE

\* String(session.user) !== String(userId) is the ownership failure
BelongsTo(session, u) == session.user = u

\* ------------------------------------------------------------- getSession
\* q.answer_text || (q.choices && q.choices[q.answer_index]) || null
ReviewExpected(q) ==
  IF Truthy(q.answer_text) THEN q.answer_text
  ELSE IF q.answer_index.k = "num" /\ q.answer_index.n + 1 \in 1..Len(q.choices)
       THEN OrElse(Str(q.choices[q.answer_index.n + 1]), Null)
  ELSE Null

\* session.answers.find(a => a.qid === qid) || {}
FindAnswer(answers, qid) ==
  IF \E i \in 1..Len(answers) : answers[i].qid = qid
  THEN answers[CHOOSE i \in 1..Len(answers) :
                 answers[i].qid = qid /\ \A j \in 1..(i - 1) : answers[j].qid # qid]
  ELSE AnswerDoc(qid, Undef, FALSE)

\* the body getSession answers with; an absent (undefined) field is Undef
SessionBodyWhen(session, isFinished) ==
  LET clientQuestions ==
        [i \in 1..Len(session.questions) |->
           LET q == session.questions[i] IN
           [qid |-> q.qid, type |-> q.type, difficulty |-> q.difficulty,
            question |-> q.question, choices |-> q.choices,
            explanation |-> IF isFinished THEN q.explanation ELSE Undef,
            answer_text |-> IF isFinished THEN q.answer_text ELSE Undef,
            answer_index |-> IF isFinished THEN q.answer_index ELSE Undef]]
      reviewDetails ==
        IF isFinished
        THEN [i \in 1..Len(session.questions) |->
                LET q == session.questions[i]
                    answer == FindAnswer(session.answers, q.qid)
                IN [qid |-> q.qid, isCorrect |-> answer.isCorrect,
                    userAnswer |-> answer.userAnswer, explanation |-> q.explanation,
                    question |-> q.question, expected |-> ReviewExpected(q)]]
        ELSE <<>>
      answersMap ==
        [i \in 1..Len(session.answers) |->
           LET a == session.answers[i] IN
           [qid |-> a.qid, full |-> isFinished, userAnswer |-> a.userAnswer,
            isCorrect |-> IF isFinished THEN a.isCorrect ELSE FALSE]]
  IN [status |-> session.status, startedAt |-> session.startedAt,
      expiresAt |-> session.expiresAt, totalQuestions |-> session.totalQuestions,
      questions |-> clientQuestions, details |-> reviewDetails,
      answers |-> answersMap, score |-> session.score,
      autoSubmitted |-> session.autoSubmitted]

\* mutant: answers and explanations shown whatever the status
getSessionBodyRevealing(session) == SessionBodyWhen(session, TRUE)

\* const isFinished = session.status === "finished"
getSessionBody(session) == SessionBodyWhen(session, session.status = "finished")

getSession(p, u, s) ==
  /\ pc[p] = "idle"
  /\ resp' = IF ~SessionFound(s) THEN Reply("read", 404, u, s, Error("Session not found"))
       ELSE IF ~BelongsTo(sessions[s], u) THEN Reply("read", 403, u, s, Error("This session does not belong to you"))
       ELSE Reply("read", 200, u, s, getSessionBody(sessions[s]))
  /\ UNCHANGED <<gemini, quizzes, now, sessions, users, pc, loc, finalized, credited>>

\* ------------------------------------------------------------ saveSession
\* existing[a.qid] = {qid, userAnswer}: overwrite in place or append
Upsert(answers, a) ==
  IF \E i \in 1..Len(answers) : answers[i].qid = a.qid
  THEN [i \in 1..Len(answers) |->
          IF answers[i].qid = a.qid THEN AnswerDoc(a.qid, a.userAnswer, FALSE)
          ELSE answers[i]]
  ELSE Append(answers, AnswerDoc(a.qid, a.userAnswer, FALSE))

RECURSIVE MergeLoop(_, _)
MergeLoop(existing, payload) ==
  IF payload = <<>> THEN existing
  ELSE MergeLoop(Upsert(existing, Head(payload)), Tail(payload))

\* merged: {qid, userAnswer} of every key, then cast by AnswerSchema
Merged(answers, payload) ==
  LET m == MergeLoop(answers, payload)
  IN [i \in 1..Len(m) |-> AnswerDoc(m[i].qid, m[i].userAnswer, FALSE)]

\* saveSession up to the findOneAndUpdate: load, checks, merge
SaveLoad(p, u, s, payload) ==
  /\ pc[p] = "idle"
  /\ IF ~SessionFound(s)
       THEN /\ resp' = Reply("save", 404, u, s, Error("Session not found"))
            /\ UNCHANGED <<pc, loc>>
     ELSE IF ~BelongsTo(sessions[s], u)
       THEN /\ resp' = Reply("save", 403, u, s, Error("This session does not belong to you"))
            /\ UNCHANGED <<pc, loc>>
     ELSE IF sessions[s].status # "in-progress"
       THEN /\ resp' = Reply("save", 409, u, s, Error("Session is not in-progress"))
            /\ UNCHANGED <<pc, loc>>
     ELSE /\ pc' = [pc EXCEPT ![p] = "save_write"]
          /\ loc' = [loc EXCEPT ![p] =
                       [NoLoc EXCEPT !.sid = s, !.user = u, !.payload = payload,
                                     !.answers = Merged(sessions[s].answers, payload)]]
          /\ resp' = NoResp
  /\ UNCHANGED <<gemini, quizzes, now, sessions, users, finalized, credited>>

\* mutant: the save's update keyed on _id alone
SaveMatchesAnyStatus(session) == TRUE

\* mutant: the save's update also refuses an attempt past its deadline
SaveMatchesInTime(session) ==
  session.status = "in-progress" /\ ~(session.expiresAt # NULL /\ now > session.expiresAt)

\* findOneAndUpdate({_id, status: "in-progress"}, {$set: {answers: merged}})
SaveMatches(session) == session.status = "in-progress"

SaveWrite(p) ==
  /\ pc[p] = "save_write"
  /\ LET s == loc[p].sid IN
     IF SaveMatches(sessions[s])
       THEN /\ sessions' = [sessions EXCEPT ![s].answers = loc[p].answers]
            /\ resp' = Reply("save", 200, loc[p].user, s, [answersCount |-> Len(loc[p].answers)])
       ELSE /\ resp' = Reply("save", 409, loc[p].user, s, Error("Session no longer in-progress"))
            /\ UNCHANGED sessions
  /\ pc' = [pc EXCEPT ![p] = "idle"]
  /\ loc' = [loc EXCEPT ![p] = NoLoc]
  /\ UNCHANGED <<gemini, quizzes, now, users, finalized, credited>>

\* ----------------------------------------------------------- submitSession
\* mutant: a user submit is never marked auto-submitted
PastDeadlineNever(session, at) == FALSE

\* mutant: every user submit is marked auto-submitted
PastDeadlineAlways(session, at) == TRUE

\* if (session.expiresAt && now > session.expiresAt) autoSubmitted = true
PastDeadline(session, at) == session.expiresAt # NULL /\ at > session.expiresAt

\* submitSession up to the findOneAndUpdate: load, checks, grading
SubmitLoad(p, u, s, payload) ==
  /\ pc[p] = "idle"
  /\ IF ~SessionFound(s)
       THEN /\ resp' = Reply("submit", 404, u, s, Error("Session not found"))
            /\ UNCHANGED <<pc, loc>>
     ELSE IF ~BelongsTo(sessions[s], u)
       THEN /\ resp' = Reply("submit", 403, u, s, Error("This session does not belong to you"))
            /\ UNCHANGED <<pc, loc>>
     ELSE IF sessions[s].status # "in-progress"
       THEN /\ resp' = Reply("submit", 409, u, s, Error("Session already finished or timed-out"))
            /\ UNCHANGED <<pc, loc>>
     ELSE LET session == sessions[s]
              autoSubmitted == PastDeadline(session, now)
              answersMap == IF Len(payload) > 0 THEN payload
                            ELSE AnswersMapOf(session.answers)
              Graded(gradeResult) ==
                [NoLoc EXCEPT !.sid = s, !.user = u, !.at = now, !.payload = payload,
                              !.graded = gradeResult,
                              !.answers = AnswersToStore(gradeResult.details),
                              !.autoSubmitted = autoSubmitted]
          IN /\ pc' = [pc EXCEPT ![p] = "submit_write"]
             /\ loc' = [loc EXCEPT ![p] = Graded(gradeAll(session.questions, answersMap))]
             /\ resp' = NoResp
  /\ UNCHANGED <<gemini, quizzes, now, sessions, users, finalized, credited>>

\* mutant: the submit's update keyed on _id alone
SubmitMatchesAnyStatus(session) == TRUE

\* findOneAndUpdate({_id, status: "in-progress"}, {$set: {status: "finished", ...}})
SubmitMatches(session) == session.status = "in-progress"

SubmitWrite(p) ==
  /\ pc[p] = "submit_write"
  /\ LET s == loc[p].sid IN
     IF SubmitMatches(sessions[s])
       THEN /\ sessions' = [sessions EXCEPT ![s] =
                 [@ EXCEPT !.status = "finished", !.finishedAt = loc[p].at,
                           !.autoSubmitted = loc[p].autoSubmitted,
                           !.answers = loc[p].answers,
                           !.score = loc[p].graded.totalCorrect]]
            /\ finalized' = [finalized EXCEPT ![s].user = @ + 1]
            /\ pc' = [pc EXCEPT ![p] = "submit_stats"]
            /\ resp' = NoResp
            /\ UNCHANGED loc
       ELSE /\ resp' = Reply("submit", 409, loc[p].user, s, Error("Session already finished (race detected)"))
            /\ pc' = [pc EXCEPT ![p] = "idle"]
            /\ loc' = [loc EXCEPT ![p] = NoLoc]
            /\ UNCHANGED <<sessions, finalized>>
  /\ UNCHANGED <<gemini, quizzes, now, users, credited>>

SubmitBody(p, session, withUser) ==
  [score |-> loc[p].graded.totalCorrect, totalQuestions |-> session.totalQuestions,
   autoSubmitted |-> loc[p].autoSubmitted, details |-> loc[p].graded.details,
   user |-> withUser]

\* mutant: the failed stats update fails the request
StatsFailurePropagated(p, s) ==
  Reply("submit", 500, loc[p].user, s, Error("Failed to submit session"))

\* catch (uErr): still return result
StatsFailureReply(p, s) ==
  Reply("submit", 200, loc[p].user, s, SubmitBody(p, sessions[s], FALSE))

\* User.findByIdAndUpdate($inc) and the response; ok = FALSE: the update throws
SubmitStats(p, ok) ==
  /\ pc[p] = "submit_stats"
  /\ LET s == loc[p].sid
         u == loc[p].user
         score == loc[p].graded.totalCorrect
     IN IF ok
          THEN /\ users' = IncStats(users, u, score)
               /\ credited' = [credited EXCEPT ![s].user = @ + 1]
               /\ resp' = Reply("submit", 200, loc[p].user, s, SubmitBody(p, sessions[s], TRUE))
        ELSE /\ resp' = StatsFailureReply(p, s)
             /\ UNCHANGED <<users, credited>>
  /\ pc' = [pc EXCEPT ![p] = "idle"]
  /\ loc' = [loc EXCEPT ![p] = NoLoc]
  /\ UNCHANGED <<gemini, quizzes, now, sessions, finalized>>

\* --------------------------------------------------- cron/expireSessions.js
\* mutant: the cron's find without the status filter
ExpiredAnyStatus(session) == session.expiresAt # NULL /\ session.expiresAt <= now

\* mutant: the find matches the attempts whose deadline is this very moment
ExpiredJustNow(session) ==
  session.status = "in-progress" /\ session.expiresAt # NULL /\ session.expiresAt = now

\* QuizSession.find({status: "in-progress", expiresAt: {$lte: now}})
Expired(session) ==
  session.status = "in-progress" /\ session.expiresAt # NULL /\ session.expiresAt <= now

\* every order the unsorted find may return the matching documents in
Orders(S) ==
  {o \in [1..Cardinality(S) -> S] : \A i, j \in 1..Cardinality(S) : i # j => o[i] # o[j]}

Take(seq, n) == SubSeq(seq, 1, Min2(Len(seq), n))

\* main() up to the loop: the find loads the matching documents and the run
\* logs how many it found (the run's only output, kept in resp)
SweepFindUpTo(p, limit) ==
  /\ pc[p] = "idle"
  /\ \E o \in Orders({s \in 1..Len(sessions) : Expired(sessions[s])}) :
       LET expired == Take([i \in 1..Len(o) |-> [id |-> o[i], doc |-> sessions[o[i]]]],
                           limit)
       IN /\ resp' = Reply("sweep", 0, 0, 0, [found |-> Len(expired)])
          /\ IF expired = <<>>
               THEN UNCHANGED <<pc, loc>>
             ELSE /\ pc' = [pc EXCEPT ![p] = "sweep_save"]
                  /\ loc' = [loc EXCEPT ![p] = [NoLoc EXCEPT !.at = now, !.batch = expired]]
  /\ UNCHANGED <<gemini, quizzes, now, sessions, users, finalized, credited>>

SweepFind(p) == SweepFindUpTo(p, SweepLimit)

\* the fields main() assigns to a loaded document s
SweepAssigned(doc, at) ==
  LET Assign(result) ==
        [doc EXCEPT !.status = "timed-out", !.finishedAt = at, !.autoSubmitted = TRUE,
                    !.score = result.totalCorrect,
                    !.answers = AnswersToStore(result.details)]
  IN Assign(gradeAll(doc.questions, AnswersMapOf(doc.answers)))

\* s.save() writes the paths whose value changed since the load.  When the
\* answers array is among them, Mongoose's versionKey makes the update match
\* {_id, __v: loaded} and increment __v; otherwise it matches on _id alone.
\* Nothing in the filter looks at status.
SaveVersioned(doc, assigned) == assigned.answers # doc.answers

SweepSaveMatches(stored, doc, assigned) ==
  SaveVersioned(doc, assigned) => stored.v = doc.v

SavedDoc(stored, doc, assigned) ==
  [stored EXCEPT
     !.status = IF assigned.status # doc.status THEN assigned.status ELSE @,
     !.finishedAt = IF assigned.finishedAt # doc.finishedAt THEN assigned.finishedAt ELSE @,
     !.autoSubmitted = IF assigned.autoSubmitted # doc.autoSubmitted
                       THEN assigned.autoSubmitted ELSE @,
     !.score = IF assigned.score # doc.score THEN assigned.score ELSE @,
     !.answers = IF assigned.answers # doc.answers THEN assigned.answers ELSE @,
     !.v = IF SaveVersioned(doc, assigned) THEN @ + 1 ELSE @]

\* mutant: a failure ends the run
AbortBatch(p) ==
  /\ pc' = [pc EXCEPT ![p] = "idle"]
  /\ loc' = [loc EXCEPT ![p] = NoLoc]

NextInBatch(p) ==
  IF Len(loc[p].batch) > 1
  THEN /\ pc' = [pc EXCEPT ![p] = "sweep_save"]
       /\ loc' = [loc EXCEPT ![p].batch = Tail(@)]
  ELSE /\ pc' = [pc EXCEPT ![p] = "idle"]
       /\ loc' = [loc EXCEPT ![p] = NoLoc]

\* one turn of the loop up to the save; a VersionError is caught and logged
SweepSave(p) ==
  /\ pc[p] = "sweep_save"
  /\ LET s == loc[p].batch[1].id
         doc == loc[p].batch[1].doc
         Save(assigned) ==
           IF SweepSaveMatches(sessions[s], doc, assigned)
             THEN /\ sessions' = [sessions EXCEPT ![s] = SavedDoc(@, doc, assigned)]
                  /\ finalized' = [finalized EXCEPT ![s].expiry = @ + 1]
                  /\ pc' = [pc EXCEPT ![p] = "sweep_stats"]
                  /\ loc' = [loc EXCEPT ![p].graded =
                               [totalCorrect |-> assigned.score, details |-> <<>>]]
           ELSE /\ NextInBatch(p)
                /\ UNCHANGED <<sessions, finalized>>
     IN Save(SweepAssigned(doc, loc[p].at))
  /\ resp' = NoResp
  /\ UNCHANGED <<gemini, quizzes, now, users, credited>>

\* User.findByIdAndUpdate($inc); ok = FALSE: it throws, caught and logged
SweepStats(p, ok) ==
  /\ pc[p] = "sweep_stats"
  /\ LET s == loc[p].batch[1].id
         u == loc[p].batch[1].doc.user
     IN IF ok
          THEN /\ users' = IncStats(users, u, loc[p].graded.totalCorrect)
               /\ credited' = [credited EXCEPT ![s].expiry = @ + 1]
        ELSE UNCHANGED <<users, credited>>
  /\ NextInBatch(p)
  /\ resp' = NoResp
  /\ UNCHANGED <<gemini, quizzes, now, sessions, finalized>>

\* ---------------------------------------------------- PUT /api/quizzes/:id
\* publish: endAt = now + 24 * 60 * 60 seconds
PublishedSeconds == 86400

\* the questions of quiz 1 with other answers
QuizQuestions1Changed ==
  << [qid |-> "q1", type |-> "mcq", difficulty |-> "easy", question |-> "pick",
      choices |-> << <<"A">>, <<"B">> >>, answer_index |-> Num(0),
      answer_text |-> Undef, explanation |-> Str(<<"x">>)],
     [qid |-> "", type |-> "tf", difficulty |-> "easy", question |-> "sure",
      choices |-> <<>>, answer_index |-> Undef,
      answer_text |-> Str(<<"f","a","l","s","e">>), explanation |-> Undef] >>

\* req.body of an update: questions when set, publish (the other fields of
\* the body are fields the quiz documents of the model do not carry)
UpdateBodies ==
  { [set |-> TRUE, questions |-> QuizQuestions1Changed, publish |-> FALSE],
    [set |-> TRUE, questions |-> QuizQuestions3, publish |-> FALSE],
    [set |-> FALSE, questions |-> <<>>, publish |-> TRUE] }

\* the fields the handler assigns before quiz.save()
UpdatedQuiz(quiz, body) ==
  [quiz EXCEPT !.questions = IF body.set THEN body.questions ELSE @,
               !.startAt = IF body.publish THEN now ELSE @,
               !.endAt = IF body.publish THEN now + PublishedSeconds ELSE @]

\* mutant: the update also rewrites the snapshot of the quiz's sessions
UpdateQuizCascading(u, q, body) ==
  /\ QuizFound(q) /\ quizzes[q].creator = u
  /\ quizzes' = [quizzes EXCEPT ![q] = UpdatedQuiz(@, body)]
  /\ sessions' = [s \in 1..Len(sessions) |->
                    IF sessions[s].quiz = q
                    THEN [sessions[s] EXCEPT
                            !.questions = questionsSnapshot(UpdatedQuiz(quizzes[q], body))]
                    ELSE sessions[s]]
  /\ resp' = [NoResp EXCEPT !.op = "update", !.code = 200, !.user = u, !.quiz = q]
  /\ UNCHANGED <<gemini, now, users, pc, loc, finalized, credited>>

\* the update of a quiz by user u: findById, the creator check, the
\* assignments, quiz.save() and the response; only the Quiz collection is
\* written
UpdateQuiz(u, q, body) ==
  /\ IF ~QuizFound(q)
       THEN /\ resp' = [NoResp EXCEPT !.op = "update", !.code = 404, !.user = u, !.quiz = q,
                                      !.body = Error("Quiz not found")]
            /\ UNCHANGED quizzes
     ELSE IF quizzes[q].creator # u
       THEN /\ resp' = [NoResp EXCEPT !.op = "update", !.code = 403, !.user = u, !.quiz = q,
                                      !.body = Error("Not allowed")]
            /\ UNCHANGED quizzes
     ELSE /\ quizzes' = [quizzes EXCEPT ![q] = UpdatedQuiz(@, body)]
          /\ resp' = [NoResp EXCEPT !.op = "update", !.code = 200, !.user = u, !.quiz = q]
  /\ UNCHANGED <<gemini, now, sessions, users, pc, loc, finalized, credited>>

\* ----------------------------------------------------------- specification
Next ==
  \/ Tick
  \/ \E p \in Procs, u \in Users, q \in QuizIds : StartCheck(p, u, q)
  \/ \E p \in Procs : StartSave(p)
  \/ \E p \in Procs, u \in Users, s \in SessionIds : getSession(p, u, s)
  \/ \E p \in Procs, u \in Users, s \in SessionIds, a \in Payloads : SaveLoad(p, u, s, a)
  \/ \E p \in Procs : SaveWrite(p)
  \/ \E p \in Procs, u \in Users, s \in SessionIds, a \in Payloads : SubmitLoad(p, u, s, a)
  \/ \E p \in Procs : SubmitWrite(p)
  \/ \E p \in Procs, ok \in BOOLEAN : SubmitStats(p, ok)
  \/ \E p \in Procs : SweepFind(p)
  \/ \E p \in Procs : SweepSave(p)
  \/ \E p \in Procs, ok \in BOOLEAN : SweepStats(p, ok)

Spec == Init /\ [][Next]_vars

\* sweeper runs one after the other: a run starts only when no other run is
\* in its loop (client requests still interleave freely)
NoSweepRunning == \A r \in Procs : pc[r] \notin {"sweep_save", "sweep_stats"}

NextSeq ==
  \/ Tick
  \/ \E p \in Procs, u \in Users, q \in QuizIds : StartCheck(p, u, q)
  \/ \E p \in Procs : StartSave(p)
  \/ \E p \in Procs, u \in Users, s \in SessionIds : getSession(p, u, s)
  \/ \E p \in Procs, u \in Users, s \in SessionIds, a \in Payloads : SaveLoad(p, u, s, a)
  \/ \E p \in Procs : SaveWrite(p)
  \/ \E p \in Procs, u \in Users, s \in SessionIds, a \in Payloads : SubmitLoad(p, u, s, a)
  \/ \E p \in Procs : SubmitWrite(p)
  \/ \E p \in Procs, ok \in BOOLEAN : SubmitStats(p, ok)
  \/ \E p \in Procs : NoSweepRunning /\ SweepFind(p)
  \/ \E p \in Procs : SweepSave(p)
  \/ \E p \in Procs, ok \in BOOLEAN : SweepStats(p, ok)

SpecSeq == Init /\ [][NextSeq]_vars

\* several attempts of one (quiz, user) pair: user PairUser starts quiz
\* PairQuiz up to MaxAttempts times and submits, and the cron sweeps
PairUser == CHOOSE u \in Users : \A w \in Users : u <= w
PairQuiz == CHOOSE q \in 1..Len(QuizDB) : durationSeconds(QuizDB[q]) # NULL /\ QuizDB[q].questions # <<>>
AttemptIds == 1..MaxAttempts
PairPayloads == {a \in Payloads : Len(a) <= 1}

InitPair ==
  /\ gemini = NoCall
  /\ quizzes = QuizDB
  /\ now = 0
  /\ sessions = <<>>
  /\ users = [u \in Users |-> [points |-> 0, quizzesAttempted |-> 0, totalCorrect |-> 0]]
  /\ pc = [p \in Procs |-> "idle"]
  /\ loc = [p \in Procs |-> NoLoc]
  /\ resp = NoResp
  /\ finalized = [s \in AttemptIds |-> [user |-> 0, expiry |-> 0]]
  /\ credited = [s \in AttemptIds |-> [user |-> 0, expiry |-> 0]]

NextPair ==
  \/ Tick
  \/ \E p \in Procs : StartCheckUpTo(p, PairUser, PairQuiz, MaxAttempts)
  \/ \E p \in Procs : StartSave(p)
  \/ \E p \in Procs, s \in AttemptIds, a \in PairPayloads : SubmitLoad(p, PairUser, s, a)
  \/ \E p \in Procs : SubmitWrite(p)
  \/ \E p \in Procs, ok \in BOOLEAN : SubmitStats(p, ok)
  \/ \E p \in Procs : SweepFind(p)
  \/ \E p \in Procs : SweepSave(p)
  \/ \E p \in Procs, ok \in BOOLEAN : SweepStats(p, ok)

SpecPair == InitPair /\ [][NextPair]_vars

\* the creator of PairQuiz updates it while PairUser takes it
UpdatedQuizIds == {PairQuiz, Len(QuizDB) + 1}

NextUpdate ==
  \/ Tick
  \/ \E p \in Procs : StartCheck(p, PairUser, PairQuiz)
  \/ \E p \in Procs : StartSave(p)
  \/ \E u \in Users, q \in UpdatedQuizIds, body \in UpdateBodies : UpdateQuiz(u, q, body)
  \/ \E p \in Procs, s \in SessionIds, a \in Payloads : SubmitLoad(p, PairUser, s, a)
  \/ \E p \in Procs : SubmitWrite(p)
  \/ \E p \in Procs, ok \in BOOLEAN : SubmitStats(p, ok)
  \/ \E p \in Procs : SweepFind(p)
  \/ \E p \in Procs : SweepSave(p)
  \/ \E p \in Procs, ok \in BOOLEAN : SweepStats(p, ok)

SpecUpdate == Init /\ [][NextUpdate]_vars

\* ------------------------------------------------------ grading on its own
\* texts of expected answers and of user answers
text_elephant == <<"e","l","e","p","h","a","n","t">>
text_elefant == <<"e","l","e","f","a","n","t">>
text_elephnt == <<"e","l","e","p","h","n","t">>
text_giraffe == <<"g","i","r","a","f","f","e">>
text_five == <<"f","i","v","e">>
text_twentyOne == <<"t","w","e","n","t","y"," ","o","n","e">>
text_oneHundredTwentyThree == <<"o","n","e"," ","h","u","n","d","r","e","d"," ","t","w","e","n","t","y"," ","t","h","r","e","e">>
text_twoThousandFive == <<"t","w","o"," ","t","h","o","u","s","a","n","d"," ","f","i","v","e">>
text_ninetyNine == <<"n","i","n","e","t","y","-","n","i","n","e">>
text_oneFoo == <<"o","n","e"," ","f","o","o">>
text_yes == <<"Y","e","s">>
text_maybe == <<"m","a","y","b","e">>
text_true == <<"t","r","u","e">>

\* a question document of Quiz.questions, without qid: the snapshot numbers it
ShortQuestion(text) ==
  [qid |-> "", type |-> "short", difficulty |-> "easy", question |-> "name",
   choices |-> <<>>, answer_index |-> Undef, answer_text |-> text, explanation |-> Undef]

TfQuestion(text) ==
  [qid |-> "", type |-> "tf", difficulty |-> "easy", question |-> "sure",
   choices |-> <<>>, answer_index |-> Undef, answer_text |-> text, explanation |-> Undef]

McqQuestion(index) ==
  [qid |-> "", type |-> "mcq", difficulty |-> "easy", question |-> "pick",
   choices |-> << <<"A">>, <<"B">>, <<"C">>, <<"D">> >>, answer_index |-> index,
   answer_text |-> Undef, explanation |-> Undef]

\* the question lists of the quizzes graded: Quiz.questions takes any array
GradeQuizzes ==
  { <<ShortQuestion(Str(text_elephant))>>,
    <<ShortQuestion(Str(<<"5">>))>>,
    <<ShortQuestion(Str(<<"2","1">>))>>,
    <<ShortQuestion(Str(text_oneHundredTwentyThree))>>,
    <<ShortQuestion(Str(text_twoThousandFive))>>,
    <<ShortQuestion(Str(text_ninetyNine))>>,
    <<ShortQuestion(Str(text_oneFoo))>>,
    <<ShortQuestion(Undef)>>,
    <<TfQuestion(Str(text_true))>>,
    <<TfQuestion(Undef)>>,
    <<McqQuestion(Num(2))>>,
    <<McqQuestion(Num(0))>>,
    <<McqQuestion(Num(2)), TfQuestion(Str(text_true))>> }

\* what a client may send as one userAnswer
GradeAnswers ==
  { Str(text_elefant), Str(text_elephnt), Str(text_giraffe), Str(text_five),
    Str(<<"1","2","3">>), Str(<<"2","0","0","5">>), Str(<<"9","9">>), Str(text_twentyOne),
    Str(text_yes), Str(text_maybe), Str(<<"1">>), Str(<<>>), Null, Num(2), Num(1) }

\* req.body.answers of a submit: nothing, an answer to the first question,
\* answers to both in the reverse order, an answer to the second only
GradePayloads ==
  {<<>>}
  \cup { <<[qid |-> "q1", userAnswer |-> a]>> : a \in GradeAnswers }
  \cup { << [qid |-> "q2", userAnswer |-> Str(text_yes)],
            [qid |-> "q1", userAnswer |-> Num(2)] >>,
         << [qid |-> "q2", userAnswer |-> Str(text_maybe)] >> }

\* the state after PairUser started a quiz with one of these question lists
\* (no time limit): one in-progress session holding the snapshot
InitGrade ==
  /\ gemini = NoCall
  /\ now = 0
  /\ \E questions \in GradeQuizzes :
       /\ quizzes = << [creator |-> 2, questions |-> questions,
                        settings |-> [attemptDurationSeconds |-> NULL,
                                      shuffleQuestions |-> FALSE, timeLimitSeconds |-> NULL],
                        startAt |-> NULL, endAt |-> NULL] >>
       /\ sessions = << NewSession(1, PairUser, questionsSnapshot(quizzes[1]), NULL) >>
  /\ users = [u \in Users |-> [points |-> 0, quizzesAttempted |-> 0, totalCorrect |-> 0]]
  /\ pc = [p \in Procs |-> "idle"]
  /\ loc = [p \in Procs |-> NoLoc]
  /\ resp = NoResp
  /\ finalized = [s \in SessionIds |-> [user |-> 0, expiry |-> 0]]
  /\ credited = [s \in SessionIds |-> [user |-> 0, expiry |-> 0]]

NextGrade ==
  \/ \E p \in Procs, a \in GradePayloads : SubmitLoad(p, PairUser, 1, a)
  \/ \E p \in Procs : SubmitWrite(p)
  \/ \E p \in Procs, ok \in BOOLEAN : SubmitStats(p, ok)

SpecGrade == InitGrade /\ [][NextGrade]_vars

\* ---------------------------------------------------- startQuiz on its own
\* three questions, the first and the last without qid
QuizQuestionsShuffled ==
  << [qid |-> "", type |-> "mcq", difficulty |-> "easy", question |-> "pick",
      choices |-> << <<"A">>, <<"B">> >>, answer_index |-> Num(1),
      answer_text |-> Undef, explanation |-> Undef],
     [qid |-> "qa", type |-> "tf", difficulty |-> "easy", question |-> "sure",
      choices |-> <<>>, answer_index |-> Undef,
      answer_text |-> Str(text_true), explanation |-> Str(<<"x">>)],
     [qid |-> "", type |-> "short", difficulty |-> "hard", question |-> "count",
      choices |-> <<>>, answer_index |-> Null,
      answer_text |-> Str(<<"5">>), explanation |-> Null] >>

\* Quiz documents to start: 1 shuffles three questions and lasts 1 second,
\* 2 keeps the order and has only timeLimitSeconds, 3 has
\* attemptDurationSeconds 0 next to a timeLimitSeconds, 4 shuffles no question
\* and has no duration
StartQuizDB ==
  << [creator |-> 2, questions |-> QuizQuestionsShuffled,
      settings |-> [attemptDurationSeconds |-> 1, shuffleQuestions |-> TRUE,
                    timeLimitSeconds |-> NULL],
      startAt |-> NULL, endAt |-> NULL],
     [creator |-> 2, questions |-> QuizQuestions1,
      settings |-> [attemptDurationSeconds |-> NULL, shuffleQuestions |-> FALSE,
                    timeLimitSeconds |-> 2],
      startAt |-> NULL, endAt |-> NULL],
     [creator |-> 2, questions |-> QuizQuestions3,
      settings |-> [attemptDurationSeconds |-> 0, shuffleQuestions |-> FALSE,
                    timeLimitSeconds |-> 1],
      startAt |-> NULL, endAt |-> NULL],
     [creator |-> 2, questions |-> <<>>,
      settings |-> [attemptDurationSeconds |-> NULL, shuffleQuestions |-> TRUE,
                    timeLimitSeconds |-> NULL],
      startAt |-> NULL, endAt |-> NULL] >>

StartQuizIds == 1..(Len(StartQuizDB) + 1)

InitStart ==
  /\ gemini = NoCall
  /\ quizzes = StartQuizDB
  /\ now = 0
  /\ sessions = <<>>
  /\ users = [u \in Users |-> [points |-> 0, quizzesAttempted |-> 0, totalCorrect |-> 0]]
  /\ pc = [p \in Procs |-> "idle"]
  /\ loc = [p \in Procs |-> NoLoc]
  /\ resp = NoResp
  /\ finalized = [s \in AttemptIds |-> [user |-> 0, expiry |-> 0]]
  /\ credited = [s \in AttemptIds |-> [user |-> 0, expiry |-> 0]]

NextStart ==
  \/ Tick
  \/ \E p \in Procs, u \in Users, q \in StartQuizIds : StartCheckUpTo(p, u, q, MaxAttempts)
  \/ \E p \in Procs : StartSave(p)

SpecStart == InitStart /\ [][NextStart]_vars

\* ------------------------------------------------- the cron, run after run
\* the batch limit scaled to the attempts of this universe: a run loads
\* fewer documents than there can be overdue attempts
SweepBatch == MaxAttempts - 1

\* PairUser starts PairQuiz up to MaxAttempts times and may submit what is
\* saved; the cron runs again and again with the scaled limit
NextLive ==
  \/ Tick
  \/ \E p \in Procs : StartCheckUpTo(p, PairUser, PairQuiz, MaxAttempts)
  \/ \E p \in Procs : StartSave(p)
  \/ \E p \in Procs, s \in AttemptIds : SubmitLoad(p, PairUser, s, <<>>)
  \/ \E p \in Procs : SubmitWrite(p)
  \/ \E p \in Procs, ok \in BOOLEAN : SubmitStats(p, ok)
  \/ \E p \in Procs : SweepFindUpTo(p, SweepBatch)
  \/ \E p \in Procs : SweepSave(p)
  \/ \E p \in Procs, ok \in BOOLEAN : SweepStats(p, ok)

\* process p leaves the save of its loop's turn, told by what the run itself
\* holds (its position, its batch, the score it goes on with): to the stats
\* update, to the next document of the batch, or to the end of the run.  A
\* step of NextLive is such a step exactly when it is a SweepSave(p) step,
\* and SweepSave(p) can be taken whenever p is at the save.
SweepSaveDone(p) ==
  /\ pc[p] = "sweep_save"
  /\ \/ /\ pc' = [pc EXCEPT ![p] = "sweep_stats"]
        /\ \E score \in 0..Len(loc[p].batch[1].doc.questions) :
             loc' = [loc EXCEPT ![p].graded = [totalCorrect |-> score, details |-> <<>>]]
     \/ /\ Len(loc[p].batch) > 1
        /\ pc' = pc
        /\ loc' = [loc EXCEPT ![p].batch = Tail(@)]
     \/ /\ Len(loc[p].batch) <= 1
        /\ pc' = [pc EXCEPT ![p] = "idle"]
        /\ loc' = [loc EXCEPT ![p] = NoLoc]

\* the scheduler keeps starting runs of the cron (whatever the request
\* handlers do), a run goes through its loop, and the awaits of a request
\* handler return
FairLive ==
  /\ SF_vars(\E p \in Procs : SweepFindUpTo(p, SweepBatch))
  /\ \A p \in Procs :
       /\ WF_<<pc, loc>>(SweepSaveDone(p))
       /\ WF_vars(\E ok \in BOOLEAN : SweepStats(p, ok))
       /\ WF_vars(StartSave(p))
       /\ WF_vars(SubmitWrite(p))
       /\ WF_vars(\E ok \in BOOLEAN : SubmitStats(p, ok))

SpecLive == InitPair /\ [][NextLive]_vars /\ FairLive

\* ------------------------------------------------- aiService.js: callGemini
\* Math.pow(2, n)
RECURSIVE Pow2(_)
Pow2(n) == IF n <= 0 THEN 1 ELSE 2 * Pow2(n - 1)

\* mutant: every failure is retried
RetryableAny(err) == TRUE

\* isNetwork || is5xx, with status = err.response?.status || null
Retryable(err) ==
  LET status == IF err.response /\ err.status # 0 THEN err.status ELSE NULL
      is5xx == status # NULL /\ status >= 500 /\ status < 600
      isNetwork == ~err.response
  IN isNetwork \/ is5xx

\* the call begins: without GEMINI_API_KEY it throws at once
CallStart ==
  /\ gemini.at = "idle"
  /\ gemini' = IF ~gemini.key
               THEN [gemini EXCEPT !.at = "done",
                                   !.outcome = [kind |-> "no_api_key", status |-> NULL]]
               ELSE [gemini EXCEPT !.at = "post"]
  /\ UNCHANGED <<quizzes, now, sessions, users, pc, loc, resp, finalized, credited>>

\* one turn of the while loop up to its next await or its end: attempt++,
\* the post settles with result; return the data, or sleep before a retry,
\* or throw the wrapper
CallPost(result) ==
  /\ gemini.at = "post"
  /\ LET attempt == gemini.attempt + 1 IN
     gemini' =
       IF result.ok
         THEN [gemini EXCEPT !.at = "done", !.attempt = attempt,
                             !.outcome = [kind |-> "data", status |-> result.status]]
       ELSE IF Retryable(result) /\ attempt <= MAX_RETRIES
         THEN [gemini EXCEPT !.at = "sleep", !.attempt = attempt,
                             !.log = Append(@, result),
                             !.slept = Append(@, BASE_DELAY_MS * Pow2(attempt - 1))]
       ELSE [gemini EXCEPT !.at = "done", !.attempt = attempt,
                           !.log = Append(@, result),
                           !.outcome = [kind |-> "wrapper",
                                        status |-> IF result.response THEN result.status
                                                   ELSE NULL]]
  /\ UNCHANGED <<quizzes, now, sessions, users, pc, loc, resp, finalized, credited>>

\* the backoff timer fires: continue
CallWake ==
  /\ gemini.at = "sleep"
  /\ gemini' = [gemini EXCEPT !.at = "post"]
  /\ UNCHANGED <<quizzes, now, sessions, users, pc, loc, resp, finalized, credited>>

\* one call, with or without GEMINI_API_KEY in the environment
InitGemini ==
  /\ gemini \in {[NoCall EXCEPT !.key = k] : k \in BOOLEAN}
  /\ quizzes = QuizDB
  /\ now = 0
  /\ sessions = <<>>
  /\ users = [u \in Users |-> [points |-> 0, quizzesAttempted |-> 0, totalCorrect |-> 0]]
  /\ pc = [p \in Procs |-> "idle"]
  /\ loc = [p \in Procs |-> NoLoc]
  /\ resp = NoResp
  /\ finalized = [s \in SessionIds |-> [user |-> 0, expiry |-> 0]]
  /\ credited = [s \in SessionIds |-> [user |-> 0, expiry |-> 0]]

NextGemini ==
  \/ CallStart
  \/ \E result \in PostResults : CallPost(result)
  \/ CallWake

\* the post settles (axios timeout) and the timer of sleep fires
SpecGemini == InitGemini /\ [][NextGemini]_vars /\ WF_vars(NextGemini)

\* ------------------------------------------------------------------ claims
Stored == 1..Len(sessions)

CorrectCount(answers) == Cardinality({i \in 1..Len(answers) : answers[i].isCorrect})

\* C1: when a user submit and the sweeper's forced finalize race on an overdue
\* attempt, only one of them performs the transition, and the stored score and
\* answers of a terminal attempt come from one grading pass (the score is the
\* number of stored answers graded correct).
C1_OneFinalizerOneGradingPass ==
  \A s \in Stored :
    /\ finalized[s].user = 0 \/ finalized[s].expiry = 0
    /\ Terminal(sessions[s]) => sessions[s].score = CorrectCount(sessions[s].answers)

\* C2: each attempt is scored into its owner's stats at most once, whoever
\* finalizes it.
C2_CreditedAtMostOnce ==
  \A s \in Stored : credited[s].user + credited[s].expiry <= 1

\* C3: of two concurrent submits of one attempt exactly one finalizes it; the
\* other answers 409 (race detected) and changes neither the attempt nor the
\* user's points and counters.
C3_SubmitRaceInv ==
  \A s \in Stored : finalized[s].user <= 1 /\ credited[s].user <= 1

C3_SubmitRaceLoser ==
  \A p \in Procs :
    (pc[p] = "submit_write" /\ pc'[p] # "submit_write"
       /\ sessions[loc[p].sid].status # "in-progress")
    => /\ resp' = Reply("submit", 409, loc[p].user, loc[p].sid,
                        Error("Session already finished (race detected)"))
       /\ pc'[p] = "idle"
       /\ UNCHANGED <<sessions, users, finalized, credited>>

C3_ConcurrentSubmits == []C3_SubmitRaceInv /\ [][C3_SubmitRaceLoser]_vars

C3_Witness ==
  /\ resp.op = "submit" /\ resp.code = 409
  /\ resp.body = Error("Session already finished (race detected)")
  /\ sessions[resp.sid].status = "finished"
  /\ finalized[resp.sid] = [user |-> 1, expiry |-> 0]

\* C4: once an attempt is finished or timed-out, no step changes its status,
\* score, answers, finishedAt or autoSubmitted.
C4_TerminalStep ==
  \A s \in Stored :
    Terminal(sessions[s]) =>
      /\ sessions'[s].status = sessions[s].status
      /\ sessions'[s].score = sessions[s].score
      /\ sessions'[s].answers = sessions[s].answers
      /\ sessions'[s].finishedAt = sessions[s].finishedAt
      /\ sessions'[s].autoSubmitted = sessions[s].autoSubmitted

C4_TerminalIsFinal == [][C4_TerminalStep]_vars

\* C5: an overdue attempt is swept (finalized and credited) at most once even
\* when two sweeper runs selected it before either wrote.
C5_SweptAtMostOnce ==
  \A s \in Stored : finalized[s].expiry <= 1 /\ credited[s].expiry <= 1

\* C6: sweeper runs that do not overlap finalize and credit an overdue attempt
\* exactly once: a run never selects an attempt that is no longer in-progress
\* (a run after the first finds zero when every overdue attempt is terminal),
\* and no attempt is swept or credited by the sweeper twice.
C6_SweepInv ==
  /\ \A s \in Stored : finalized[s].expiry <= 1 /\ credited[s].expiry <= 1
  /\ resp.op = "sweep" =>
       resp.body.found <= Cardinality({s \in Stored : sessions[s].status = "in-progress"})

C6_SweepStep ==
  \A p \in Procs :
    (pc[p] = "idle" /\ pc'[p] = "sweep_save")
    => /\ \A i \in 1..Len(loc'[p].batch) :
            sessions[loc'[p].batch[i].id].status = "in-progress"
       /\ UNCHANGED <<sessions, users, finalized, credited>>

C6_IdempotentSweep == []C6_SweepInv /\ [][C6_SweepStep]_vars

C6_Witness ==
  /\ resp.op = "sweep" /\ resp.body.found = 0
  /\ \E s \in Stored :
       /\ sessions[s].status = "timed-out"
       /\ finalized[s] = [user |-> 0, expiry |-> 1]
       /\ credited[s] = [user |-> 0, expiry |-> 1]

\* C7: a save by the owner on an attempt that is already finished or timed-out
\* answers 409 and leaves the stored attempts and the user stats unchanged.
C7_SaveOnTerminalStep ==
  (resp'.op = "save" /\ SessionFound(resp'.sid)
     /\ Terminal(sessions[resp'.sid]) /\ resp'.user = sessions[resp'.sid].user)
  => resp'.code = 409 /\ UNCHANGED <<sessions, users>>

C8_SaveStep ==
  resp'.op = "save" =>
    IF resp'.code = 200
    THEN /\ sessions[resp'.sid].status = "in-progress"
         /\ sessions' = [sessions EXCEPT ![resp'.sid].answers = sessions'[resp'.sid].answers]
         /\ sessions'[resp'.sid].status = "in-progress"
    ELSE UNCHANGED sessions

C8_SaveRace == [][C8_SaveStep]_vars

\* the save was rejected at its write: the attempt was finalized after the load
C8_Witness ==
  /\ resp.op = "save" /\ resp.code = 409
  /\ resp.body = Error("Session no longer in-progress")
  /\ Terminal(sessions[resp.sid])

\* C9: the start response and every read of an in-progress attempt are the
\* same for attempts that differ only in the correct index, correct text,
\* explanation and isCorrect verdicts.
AltQuestion(q, f) ==
  [q EXCEPT !.answer_index = IF f[1] THEN IF @ = Num(0) THEN Null ELSE Num(0) ELSE @,
            !.answer_text = IF f[2] THEN IF @ = Null THEN Str(<<"n","o">>) ELSE Null ELSE @,
            !.explanation = IF f[3] THEN IF @ = Str(<<>>) THEN Str(<<"z">>) ELSE Str(<<>>)
                            ELSE @]

HiddenVariants(session) ==
  { [session EXCEPT
       !.questions = [i \in 1..Len(session.questions) |->
                        AltQuestion(session.questions[i], fq[i])],
       !.answers = [i \in 1..Len(session.answers) |->
                      [session.answers[i] EXCEPT !.isCorrect = fa[i]]]] :
    fq \in [1..Len(session.questions) -> [1..3 -> BOOLEAN]],
    fa \in [1..Len(session.answers) -> BOOLEAN] }

C9_NoLeakWhileInProgress ==
  /\ (resp.op = "read" /\ resp.code = 200 /\ sessions[resp.sid].status = "in-progress")
       => \A v \in HiddenVariants(sessions[resp.sid]) : resp.body = getSessionBody(v)
  /\ (resp.op = "start" /\ resp.code = 200)
       => \A v \in HiddenVariants(sessions[resp.sid]) : resp.body = StartBody(resp.sid, v)

C9_Witness ==
  /\ resp.op = "read" /\ resp.code = 200
  /\ sessions[resp.sid].status = "in-progress"
  /\ Len(sessions[resp.sid].questions) = 2
  /\ Len(sessions[resp.sid].answers) = 2

\* C10: a read by the owner of a finished or timed-out attempt returns every
\* question's correct-answer fields and explanation, the stored answers with
\* their verdicts, and one review entry per question.
C10_TerminalReadReveals ==
  (resp.op = "read" /\ resp.code = 200 /\ Terminal(sessions[resp.sid]))
  => LET session == sessions[resp.sid]
         body == resp.body
     IN /\ \A i \in 1..Len(session.questions) :
             /\ body.questions[i].answer_index = session.questions[i].answer_index
             /\ body.questions[i].answer_text = session.questions[i].answer_text
             /\ body.questions[i].explanation = session.questions[i].explanation
        /\ \A i \in 1..Len(session.answers) :
             body.answers[i].full /\ body.answers[i].isCorrect = session.answers[i].isCorrect
        /\ Len(body.details) = Len(session.questions)
        /\ \A i \in 1..Len(body.details) :
             /\ body.details[i].expected = ReviewExpected(session.questions[i])
             /\ body.details[i].userAnswer = session.answers[i].userAnswer
             /\ body.details[i].isCorrect = session.answers[i].isCorrect

\* C11: no two attempts of the same quiz by the same user are both finished.
C11_OneFinishedPerPair ==
  \A s \in Stored : \A r \in Stored :
    (s # r /\ sessions[s].quiz = sessions[r].quiz /\ sessions[s].user = sessions[r].user)
    => ~(sessions[s].status = "finished" /\ sessions[r].status = "finished")

\* C12: once an attempt of a (quiz, user) pair has been finished by a submit,
\* no start of that pair issued afterwards proceeds to create an attempt, and
\* a start answered 403 creates nothing.
C12_StartStep ==
  /\ \A p \in Procs :
       (pc[p] = "idle" /\ pc'[p] = "start_save")
       => ~\E s \in Stored : /\ sessions[s].quiz = loc'[p].quiz
                             /\ sessions[s].user = loc'[p].user
                             /\ finalized[s].user > 0
  /\ (resp'.op = "start" /\ resp'.code = 403) => UNCHANGED <<sessions, pc, loc>>

C12_SingleAttempt == [][C12_StartStep]_vars

\* C13: the stored answers of an in-progress attempt carry no verdict (the
\* schema default, false), and the stored answers of a terminal attempt are
\* one per question of the snapshot, each with the verdict the grading
\* engine gives its userAnswer (null standing for an unanswered question).
Verdicts(q, userAnswer) ==
  {gradeQuestion(q, ua).isCorrect :
     ua \in {userAnswer} \cup (IF userAnswer = Null THEN {Undef} ELSE {})}

C13_VerdictsWhenTerminal ==
  \A s \in Stored :
    LET session == sessions[s] IN
    IF session.status = "in-progress"
    THEN \A i \in 1..Len(session.answers) : ~session.answers[i].isCorrect
    ELSE /\ Len(session.answers) = Len(session.questions)
         /\ \A i \in 1..Len(session.answers) :
              /\ session.answers[i].qid = session.questions[i].qid
              /\ session.answers[i].isCorrect
                   \in Verdicts(session.questions[i], session.answers[i].userAnswer)

\* C14: a save answered 200 leaves, for every qid of its payload, the
\* payload's value stored; every qid stored before the write and absent from
\* the payload is still stored with its userAnswer; the answer count reported
\* is the number of distinct qids stored; nothing but the answers changes.
HasQid(entries, qid) == \E i \in 1..Len(entries) : entries[i].qid = qid

C14_SaveStep ==
  \A p \in Procs :
    (pc[p] = "save_write" /\ pc'[p] = "idle" /\ resp'.op = "save" /\ resp'.code = 200)
    => LET s == loc[p].sid
           payload == loc[p].payload
           before == sessions[s].answers
           after == sessions'[s].answers
       IN /\ \A i \in 1..Len(payload) :
               /\ HasQid(after, payload[i].qid)
               /\ FindAnswer(after, payload[i].qid).userAnswer = Lookup(payload, payload[i].qid)
          /\ \A i \in 1..Len(before) :
               ~HasQid(payload, before[i].qid)
               => /\ HasQid(after, before[i].qid)
                  /\ FindAnswer(after, before[i].qid).userAnswer = before[i].userAnswer
          /\ resp'.body.answersCount = Cardinality({after[i].qid : i \in 1..Len(after)})
          /\ sessions' = [sessions EXCEPT ![s].answers = after]

C14_SaveMerges == [][C14_SaveStep]_vars

\* C15: a submit that goes on to its write has graded, for each question of
\* the snapshot, the answer its payload supplies for that qid when it supplies
\* one, and otherwise the answer saved for that qid (null when there is none).
ChosenAnswer(payload, saved, qid) ==
  IF HasQid(payload, qid) THEN Lookup(payload, qid)
  ELSE IF HasQid(saved, qid) THEN FindAnswer(saved, qid).userAnswer
  ELSE Null

C15_SubmitStep ==
  \A p \in Procs :
    (pc[p] = "idle" /\ pc'[p] = "submit_write")
    => LET session == sessions[loc'[p].sid]
           details == loc'[p].graded.details
       IN /\ Len(details) = Len(session.questions)
          /\ \A i \in 1..Len(details) :
               details[i].userAnswer =
                 ChosenAnswer(loc'[p].payload, session.answers, session.questions[i].qid)

C15_GradesPerQuestion == [][C15_SubmitStep]_vars

C17_StatsFailureStep ==
  \A p \in Procs :
    (pc[p] = "submit_stats" /\ pc'[p] = "idle" /\ users' = users)
    => LET s == loc[p].sid IN
       /\ resp'.op = "submit" /\ resp'.code = 200
       /\ resp'.user = loc[p].user /\ resp'.sid = s
       /\ resp'.body.score = loc[p].graded.totalCorrect
       /\ resp'.body.totalQuestions = sessions[s].totalQuestions
       /\ resp'.body.autoSubmitted = loc[p].autoSubmitted
       /\ resp'.body.details = loc[p].graded.details
       /\ UNCHANGED <<sessions, finalized, credited>>
       /\ finalized[s].expiry = 0
            => /\ sessions'[s].status = "finished"
               /\ sessions'[s].score = resp'.body.score

C17_StatsFailureNotPropagated == [][C17_StatsFailureStep]_vars

C17_Witness ==
  /\ resp.op = "submit" /\ resp.code = 200 /\ ~resp.body.user
  /\ sessions[resp.sid].status = "finished"
  /\ sessions[resp.sid].score = resp.body.score
  /\ credited[resp.sid].user = 0

\* C18: a cron run leaves its loop only after the last attempt it selected;
\* after any turn, failed or not (the save throws, the stats update throws),
\* it goes on with the rest of its batch.
C18_BatchStep ==
  \A p \in Procs :
    pc[p] \in {"sweep_save", "sweep_stats"}
    => /\ pc'[p] = "idle" => Len(loc[p].batch) = 1
       /\ pc'[p] # "idle"
            => \/ loc'[p].batch = loc[p].batch
               \/ loc'[p].batch = Tail(loc[p].batch) /\ pc'[p] = "sweep_save"

C18_FailureDoesNotAbort == [][C18_BatchStep]_vars

\* a run is at the second attempt of its batch after the stats update of
\* another attempt it swept failed
C18_Witness ==
  \E p \in Procs : \E s \in Stored :
    /\ pc[p] = "sweep_stats" /\ Len(loc[p].batch) = 1 /\ loc[p].batch[1].id # s
    /\ \A r \in Procs \ {p} : pc[r] = "idle"
    /\ sessions[s].status = "timed-out"
    /\ finalized[s].expiry = 1 /\ credited[s].expiry = 0

\* C19: a cron run selects at most SweepLimit attempts, all in-progress with
\* a deadline that has passed; when it writes an attempt, that attempt is
\* in-progress with a passed deadline, the score written is the grade of the
\* answers stored for it, and no other attempt changes.
C19_SweepStep ==
  \A p \in Procs :
    /\ (pc[p] = "idle" /\ pc'[p] = "sweep_save")
         => /\ Len(loc'[p].batch) <= SweepLimit
            /\ \A i \in 1..Len(loc'[p].batch) :
                 LET stored == sessions[loc'[p].batch[i].id] IN
                 /\ stored.status = "in-progress"
                 /\ stored.expiresAt # NULL /\ stored.expiresAt <= now
    /\ (pc[p] = "sweep_save" /\ pc'[p] = "sweep_stats")
         => LET s == loc[p].batch[1].id
                stored == sessions[s]
            IN /\ stored.status = "in-progress"
               /\ stored.expiresAt # NULL /\ stored.expiresAt <= now
               /\ sessions'[s].score
                    = gradeAll(stored.questions, AnswersMapOf(stored.answers)).totalCorrect
               /\ \A r \in Stored \ {s} : sessions'[r] = sessions[r]

C19_SweepsOnlyOverdueInProgress == [][C19_SweepStep]_vars

\* C20: a start that fails answers 404 when the quiz does not exist, else
\* 400 when the time is before startAt or after endAt (a null bound does not
\* bound), else 403, and then a finished attempt of the pair exists; a failed
\* start creates nothing, and a start that goes on to create an attempt has
\* none of these causes.
FailureCode(q, u) ==
  IF q \notin 1..Len(QuizDB) THEN 404
  ELSE IF \/ QuizDB[q].startAt # NULL /\ now < QuizDB[q].startAt
          \/ QuizDB[q].endAt # NULL /\ now > QuizDB[q].endAt
    THEN 400
  ELSE IF \E s \in Stored : /\ sessions[s].quiz = q /\ sessions[s].user = u
                            /\ sessions[s].status = "finished"
    THEN 403
  ELSE 200

C20_StartStep ==
  /\ (resp'.op = "start" /\ resp'.code # 200)
       => /\ resp'.code \in {404, 400, 403}
          /\ resp'.code = FailureCode(resp'.quiz, resp'.user)
          /\ UNCHANGED <<sessions, pc, loc>>
  /\ \A p \in Procs :
       (pc[p] = "idle" /\ pc'[p] = "start_save")
       => FailureCode(loc'[p].quiz, loc'[p].user) = 200

C20_StartFailures == [][C20_StartStep]_vars

C20_Witness ==
  /\ resp.op = "start" /\ resp.code = 403
  /\ \E s \in Stored : /\ sessions[s].quiz = resp.quiz /\ sessions[s].user = resp.user
                        /\ sessions[s].status = "finished"

\* C21: save, submit and read answer 404 for an id no stored session has, 403
\* for a session of another user whatever its status, and save and submit
\* answer 409 for an owned session that is not in-progress, at the load and at
\* the conditional write; none of these replies changes a session or a user,
\* and a request that goes on to its write has none of the three causes.
C21_FailureStep ==
  /\ (resp'.op \in {"save", "submit", "read"} /\ pc' = pc) =>
       LET u == resp'.user
           s == resp'.sid
       IN /\ ~SessionFound(s) => resp'.code = 404
          /\ (SessionFound(s) /\ sessions[s].user # u) => resp'.code = 403
          /\ (SessionFound(s) /\ sessions[s].user = u /\ sessions[s].status # "in-progress"
                /\ resp'.op # "read") => resp'.code = 409
          /\ resp'.code \in {404, 403, 409} => UNCHANGED <<sessions, users>>
  /\ \A p \in Procs :
       (pc[p] = "idle" /\ pc'[p] \in {"save_write", "submit_write"}) =>
         /\ SessionFound(loc'[p].sid)
         /\ sessions[loc'[p].sid].user = loc'[p].user
         /\ sessions[loc'[p].sid].status = "in-progress"
  /\ \A p \in Procs :
       (pc[p] \in {"save_write", "submit_write"} /\ pc'[p] # pc[p]
          /\ sessions[loc[p].sid].status # "in-progress") =>
         /\ resp'.code = 409
         /\ resp'.op = (IF pc[p] = "save_write" THEN "save" ELSE "submit")
         /\ UNCHANGED <<sessions, users>>

Grading == {p \in Procs : pc[p] \in {"submit_write", "submit_stats"}}

Sent(payload, qid) ==
  IF HasQid(payload, qid)
  THEN payload[CHOOSE i \in 1..Len(payload) : payload[i].qid = qid].userAnswer
  ELSE Undef

GradedCases ==
  UNION { { [q |-> sessions[loc[p].sid].questions[i],
             given |-> HasQid(loc[p].payload, sessions[loc[p].sid].questions[i].qid),
             ua |-> Sent(loc[p].payload, sessions[loc[p].sid].questions[i].qid),
             d |-> loc[p].graded.details[i]] :
            i \in 1..Len(loc[p].graded.details) } : p \in Grading }

\* C22: gradeAll gives one detail per question of the snapshot, in the
\* snapshot's order; a question whose qid the answers do not hold is graded
\* incorrect; totalCorrect is the number of details graded correct.
C22_GradeAllShape ==
  \A p \in Grading :
    LET questions == sessions[loc[p].sid].questions
        details == loc[p].graded.details
    IN /\ Len(details) = Len(questions)
       /\ \A i \in 1..Len(details) :
            /\ details[i].qid = questions[i].qid
            /\ ~HasQid(loc[p].payload, questions[i].qid) => ~details[i].isCorrect
       /\ loc[p].graded.totalCorrect = Cardinality({i \in 1..Len(details) : details[i].isCorrect})

\* C24 as stated: for expected "elephant" the answer "elefant" is graded
\* correct by the fuzzy strategy with a similarity of at least 0.8, "giraffe"
\* is graded incorrect, and a fuzzy verdict is correct exactly when the
\* similarity is at least 0.8.
C24_ElefantCorrect ==
  \A c \in GradedCases :
    (c.q.type = "short") =>
      /\ (c.q.answer_text = Str(text_elephant) /\ c.ua = Str(text_elefant)) =>
           /\ c.d.isCorrect
           /\ c.d.similarity # NoSimilarity
           /\ 5 * (c.d.similarity[2] - c.d.similarity[1]) >= 4 * c.d.similarity[2]
      /\ (c.q.answer_text = Str(text_elephant) /\ c.ua = Str(text_giraffe)) => ~c.d.isCorrect
      /\ (c.d.similarity # NoSimilarity) =>
           (c.d.isCorrect <=>
              5 * (c.d.similarity[2] - c.d.similarity[1]) >= 4 * c.d.similarity[2])

\* C24 amended: for expected "elephant" the answer "elefant" is two edits away
\* (similarity 1 - 2/8 = 0.75) and is graded incorrect, the answer "elephnt"
\* is one edit away (0.875) and is graded correct by the fuzzy strategy,
\* "giraffe" is graded incorrect, and a fuzzy verdict is correct exactly when
\* the similarity is at least 0.8.
C24_FuzzyThreshold ==
  \A c \in GradedCases :
    (c.q.type = "short") =>
      /\ (c.q.answer_text = Str(text_elephant) /\ c.ua = Str(text_elefant)) =>
           (~c.d.isCorrect /\ c.d.similarity = <<2, 8>>)
      /\ (c.q.answer_text = Str(text_elephant) /\ c.ua = Str(text_elephnt)) =>
           (c.d.isCorrect /\ c.d.similarity = <<1, 8>>)
      /\ (c.q.answer_text = Str(text_elephant) /\ c.ua = Str(text_giraffe)) => ~c.d.isCorrect
      /\ (c.d.similarity # NoSimilarity) =>
           (c.d.isCorrect <=>
              5 * (c.d.similarity[2] - c.d.similarity[1]) >= 4 * c.d.similarity[2])

\* "elefant" was graded against "elephant"
C24_Witness ==
  \E c \in GradedCases :
    /\ c.q.type = "short" /\ c.q.answer_text = Str(text_elephant)
    /\ c.ua = Str(text_elefant) /\ ~c.d.isCorrect

\* C25: a short question is graded correct whenever its expected text and the
\* user's answer both parse to numbers, in digits or in number words, that
\* are equal.
C25_NumericEquivalence ==
  \A c \in GradedCases :
    (c.q.type = "short" /\ c.q.answer_text.k = "str" /\ c.ua.k = "str"
       /\ parseMaybeNumber(c.q.answer_text) # NoNumber
       /\ parseMaybeNumber(c.ua) = parseMaybeNumber(c.q.answer_text))
    => c.d.isCorrect

\* C26: a tf question is graded by the equality of the two booleans when the
\* normalized expected text and the normalized answer are both among true, t,
\* 1, yes, y, false, f, 0, no, n, and by the equality of the normalized texts
\* otherwise; expected "true" is correct with "Yes" and incorrect with "maybe".
C26_TrueFalse ==
  \A c \in GradedCases :
    (c.q.type = "tf") =>
      LET yes == {<<"t","r","u","e">>, <<"t">>, <<"1">>, <<"y","e","s">>, <<"y">>}
          no == {<<"f","a","l","s","e">>, <<"f">>, <<"0">>, <<"n","o">>, <<"n">>}
          e == IF c.q.answer_text.k = "str" THEN normalizeText(c.q.answer_text) ELSE <<>>
          a == normalizeText(c.ua)
      IN /\ c.d.isCorrect <=>
              (IF e \in yes \cup no /\ a \in yes \cup no THEN (e \in yes) = (a \in yes)
               ELSE e = a)
         /\ (c.q.answer_text = Str(text_true) /\ c.ua = Str(text_yes)) => c.d.isCorrect
         /\ (c.q.answer_text = Str(text_true) /\ c.ua = Str(text_maybe)) => ~c.d.isCorrect

\* "Yes" was graded against "true"
C26_Witness ==
  \E c \in GradedCases :
    /\ c.q.type = "tf" /\ c.q.answer_text = Str(text_true)
    /\ c.ua = Str(text_yes) /\ c.d.isCorrect

\* C27: an mcq question is graded correct exactly when the user's answer is a
\* number (or its digits) equal to the question's correct index, and the
\* expected value reported is the choice at that index.
C27_McqIndex ==
  \A c \in GradedCases :
    (c.q.type = "mcq" /\ c.q.answer_index.k = "num") =>
      LET numeric == \/ c.ua.k = "num"
                     \/ (c.ua.k = "str" /\ c.ua.s # <<>>
                           /\ \A i \in 1..Len(c.ua.s) : IsDigit(c.ua.s[i]))
          value == IF c.ua.k = "num" THEN c.ua.n ELSE DecimalValue(c.ua.s)
      IN /\ c.d.isCorrect <=> (numeric /\ value = c.q.answer_index.n)
         /\ c.d.expected = Str(c.q.choices[c.q.answer_index.n + 1])

\* C28: number words compose to their value, and a text holding a token that
\* is neither a number word nor digits parses to no number: it never matches
\* numerically.
WordTokens(text) ==
  NonEmptyOnes(SplitSpaces(DashCommaToSpace(trim(toLowerCase(text))), <<>>))

UnknownToken(w) ==
  /\ IndexIn(w, smallWords) = 0 /\ IndexIn(w, tensWords) = 0
  /\ w # hundredWord /\ w # thousandWord
  /\ \E i \in 1..Len(w) : ~IsDigit(w[i])

C28_NumberWords ==
  \A c \in GradedCases :
    (c.q.type = "short" /\ c.q.answer_text.k = "str") =>
      LET text == c.q.answer_text.s
          unknown == \E i \in 1..Len(WordTokens(text)) : UnknownToken(WordTokens(text)[i])
      IN /\ unknown => (wordToNumber(text) = NoNumber /\ ~c.d.numericMatch)
         /\ text = text_oneFoo => (c.ua = Str(<<"1">>) => ~c.d.isCorrect)
         /\ text = text_oneHundredTwentyThree =>
              /\ wordToNumber(text) = 123
              /\ c.ua = Str(<<"1","2","3">>) => (c.d.isCorrect /\ c.d.numericMatch)
         /\ text = text_twoThousandFive =>
              /\ wordToNumber(text) = 2005
              /\ c.ua = Str(<<"2","0","0","5">>) => (c.d.isCorrect /\ c.d.numericMatch)
         /\ text = text_ninetyNine =>
              /\ wordToNumber(text) = 99
              /\ c.ua = Str(<<"9","9">>) => (c.d.isCorrect /\ c.d.numericMatch)
         /\ (text = <<"5">> /\ c.ua = Str(text_five)) => (c.d.isCorrect /\ c.d.numericMatch)

\* "1" was graded against "one foo"
C28_Witness ==
  \E c \in GradedCases :
    /\ c.q.type = "short" /\ c.q.answer_text = Str(text_oneFoo)
    /\ c.ua = Str(<<"1">>) /\ ~c.d.isCorrect

\* C23: no step changes the questions of a stored session, an update of the
\* quiz included; a submit grades the questions of the session's snapshot,
\* and so does the cron, whatever the quiz holds by then.
C23_SnapshotStep ==
  /\ \A s \in Stored :
       /\ s \in 1..Len(sessions')
       /\ sessions'[s].questions = sessions[s].questions
       /\ sessions'[s].totalQuestions = sessions[s].totalQuestions
  /\ \A p \in Procs :
       (pc[p] = "idle" /\ pc'[p] = "submit_write") =>
         LET snapshot == sessions[loc'[p].sid].questions
             details == loc'[p].graded.details
         IN /\ Len(details) = Len(snapshot)
            /\ \A i \in 1..Len(details) :
                 /\ details[i].qid = snapshot[i].qid
                 /\ details[i].question = snapshot[i].question
                 /\ details[i].isCorrect \in Verdicts(snapshot[i], details[i].userAnswer)
            /\ loc'[p].graded.totalCorrect =
                 Cardinality({i \in 1..Len(details) : details[i].isCorrect})
  /\ \A p \in Procs :
       (pc[p] = "sweep_save" /\ pc'[p] = "sweep_stats") =>
         LET s == loc[p].batch[1].id
             snapshot == sessions[s].questions
             saved == loc[p].batch[1].doc.answers
         IN loc'[p].graded.totalCorrect =
              Cardinality({i \in 1..Len(snapshot) :
                 gradeQuestion(snapshot[i],
                               IF HasQid(saved, snapshot[i].qid)
                               THEN FindAnswer(saved, snapshot[i].qid).userAnswer
                               ELSE Undef).isCorrect})

C23_SnapshotIsFrozen == [][C23_SnapshotStep]_vars

\* a submit has graded a session whose quiz no longer holds the questions of
\* the snapshot
C23_Witness ==
  \E p \in Procs :
    /\ pc[p] = "submit_write"
    /\ sessions[loc[p].sid].status = "in-progress"
    /\ questionsSnapshot(quizzes[sessions[loc[p].sid].quiz]) # sessions[loc[p].sid].questions

\* C29: a user's points, totalCorrect and quizzesAttempted change only by a
\* stats update of a finalizer of one of that user's attempts, which adds that
\* finalizer's score to points and to totalCorrect and 1 to quizzesAttempted
\* whatever the other finalizers have done or are about to do; so the totals
\* are the sums of the deltas applied, in whatever order: quizzesAttempted
\* counts the updates applied and points equals totalCorrect.
RECURSIVE CreditsOf(_, _)
CreditsOf(u, S) ==
  IF S = {} THEN 0
  ELSE LET s == CHOOSE x \in S : TRUE
       IN (IF sessions[s].user = u THEN credited[s].user + credited[s].expiry ELSE 0)
            + CreditsOf(u, S \ {s})

C29_IncrementStep ==
  /\ \A u \in Users :
       users'[u] # users[u] =>
         \E p \in Procs :
           /\ pc[p] \in {"submit_stats", "sweep_stats"}
           /\ pc'[p] # pc[p] \/ loc'[p] # loc[p]
           /\ u = (IF pc[p] = "submit_stats" THEN loc[p].user ELSE loc[p].batch[1].doc.user)
           /\ users'[u] = [points |-> users[u].points + loc[p].graded.totalCorrect,
                           quizzesAttempted |-> users[u].quizzesAttempted + 1,
                           totalCorrect |-> users[u].totalCorrect + loc[p].graded.totalCorrect]
  /\ \A s \in Stored :
       credited'[s] # credited[s] =>
         users'[sessions[s].user].quizzesAttempted = users[sessions[s].user].quizzesAttempted + 1
  /\ \A u \in Users :
       /\ users[u].quizzesAttempted = CreditsOf(u, Stored)
       /\ users[u].points = users[u].totalCorrect

C29_PureIncrement == [][C29_IncrementStep]_vars

\* the stats updates of two different attempts of one user have both been
\* applied, the second while a score was already credited
C29_Witness ==
  \E s1, s2 \in Stored :
    /\ s1 # s2 /\ sessions[s1].user = sessions[s2].user
    /\ credited[s1].user + credited[s1].expiry > 0
    /\ credited[s2].user + credited[s2].expiry > 0
    /\ users[sessions[s1].user].quizzesAttempted >= 2
    /\ users[sessions[s1].user].points > 0

\* C30: a terminal session stores exactly one answer per question of its
\* snapshot, in the snapshot's order and under the snapshot's qids, and its
\* score is the number of stored answers marked correct, between 0 and
\* totalQuestions.
C30_TerminalAnswersAndScore ==
  \A s \in Stored :
    Terminal(sessions[s]) =>
      /\ Len(sessions[s].answers) = Len(sessions[s].questions)
      /\ \A i \in 1..Len(sessions[s].answers) :
           sessions[s].answers[i].qid = sessions[s].questions[i].qid
      /\ sessions[s].score = CorrectCount(sessions[s].answers)
      /\ 0 <= sessions[s].score /\ sessions[s].score <= sessions[s].totalQuestions

\* the snapshot entry of the source question q standing at position i
CopiedFrom(entry, q, i) ==
  /\ entry.qid = (IF q.qid # "" THEN q.qid ELSE PositionalQid[i])
  /\ entry.type = q.type /\ entry.difficulty = q.difficulty
  /\ entry.question = q.question /\ entry.choices = q.choices
  /\ entry.answer_index = (IF q.answer_index \in {Undef, Null} THEN Null ELSE q.answer_index)
  /\ entry.answer_text = (IF q.answer_text \in {Undef, Null} THEN Null ELSE q.answer_text)

\* the duration a quiz configures for an attempt: attemptDurationSeconds, and
\* timeLimitSeconds when that is not set
ConfiguredDuration(quiz) ==
  IF quiz.settings.attemptDurationSeconds # NULL THEN quiz.settings.attemptDurationSeconds
  ELSE quiz.settings.timeLimitSeconds

\* C31: a successful start appends one attempt and leaves the stored ones as
\* they were; the new attempt is in-progress with no answers, finishedAt null,
\* score 0 and totalQuestions the snapshot's length; its snapshot holds every
\* question of the quiz exactly once (in the quiz's order unless the quiz
\* shuffles), each under its own qid or the qid of its position in the quiz;
\* expiresAt is the start time plus the configured duration when that is
\* positive, and null otherwise.  A start that fails stores nothing.
C31_StartStep ==
  /\ (resp'.op = "start" /\ resp'.code = 200) =>
       LET quiz == quizzes[resp'.quiz]
           new == sessions'[resp'.sid]
           n == Len(quiz.questions)
           d == ConfiguredDuration(quiz)
       IN /\ resp'.sid = Len(sessions) + 1
          /\ sessions' = Append(sessions, new)
          /\ new.quiz = resp'.quiz /\ new.user = resp'.user
          /\ new.status = "in-progress" /\ new.answers = <<>>
          /\ new.finishedAt = NULL /\ new.score = 0 /\ new.autoSubmitted = FALSE
          /\ new.totalQuestions = Len(new.questions)
          /\ Len(new.questions) = n
          /\ \E f \in [1..n -> 1..n] :
               /\ \A j \in 1..n : \E i \in 1..n : f[i] = j
               /\ \A i \in 1..n : CopiedFrom(new.questions[i], quiz.questions[f[i]], f[i])
               /\ ~quiz.settings.shuffleQuestions => \A i \in 1..n : f[i] = i
          /\ new.expiresAt = (IF d # NULL /\ d > 0 THEN new.startedAt + d ELSE NULL)
  /\ (resp'.op = "start" /\ resp'.code # 200) => sessions' = sessions

C31_StartPersists == [][C31_StartStep]_vars

\* a second attempt has just been started on the shuffling quiz: its snapshot
\* is in another order than the quiz, with positional qids, and it has a
\* deadline; an attempt without deadline is stored before it
C31_Witness ==
  /\ resp.op = "start" /\ resp.code = 200 /\ resp.sid = 2 /\ Len(sessions) = 2
  /\ quizzes[resp.quiz].settings.shuffleQuestions
  /\ Len(sessions[2].questions) = 3
  /\ sessions[2].questions[1].qid = "q3" /\ sessions[2].questions[3].qid = "q1"
  /\ sessions[2].expiresAt = sessions[2].startedAt + 1
  /\ sessions[1].expiresAt = NULL /\ sessions[1].status = "in-progress"

\* C32: when a finalizer that was given no answers (a submit with an empty
\* body, or the sweeper) makes an in-progress attempt terminal, every answer
\* stored at that moment for a question of the snapshot (the answers the
\* successful saves have acknowledged) is the userAnswer the finalized attempt
\* holds for that question: the finalizer did not grade a set read before a
\* save that succeeded.
C32_FinalizeStep ==
  \A s \in Stored :
    ( /\ sessions[s].status = "in-progress"
      /\ sessions'[s].status # "in-progress"
      /\ ~\E p \in Procs : /\ pc[p] = "submit_write" /\ pc'[p] = "submit_stats"
                           /\ loc[p].payload # <<>> )
    => \A i \in 1..Len(sessions[s].answers) :
         (\E k \in 1..Len(sessions[s].questions) :
            sessions[s].questions[k].qid = sessions[s].answers[i].qid)
         => \E j \in 1..Len(sessions'[s].answers) :
              /\ sessions'[s].answers[j].qid = sessions[s].answers[i].qid
              /\ sessions'[s].answers[j].userAnswer = sessions[s].answers[i].userAnswer

C32_SavedAnswersGraded == [][C32_FinalizeStep]_vars

\* C33: a step that is not the write of a submit or the save of the sweeper
\* (so every step of a start, a read or a save) leaves status, score,
\* finishedAt and autoSubmitted of every stored attempt as they were and
\* removes no attempt; and the write of a save on an in-progress attempt
\* succeeds whether or not the deadline has passed.
C33_FrameStep ==
  /\ (~\E p \in Procs : /\ pc[p] \in {"submit_write", "sweep_save"}
                        /\ (pc'[p] # pc[p] \/ loc'[p] # loc[p]))
     => /\ Len(sessions') >= Len(sessions)
        /\ \A s \in Stored :
             /\ sessions'[s].status = sessions[s].status
             /\ sessions'[s].score = sessions[s].score
             /\ sessions'[s].finishedAt = sessions[s].finishedAt
             /\ sessions'[s].autoSubmitted = sessions[s].autoSubmitted
  /\ \A p \in Procs :
       (pc[p] = "save_write" /\ pc'[p] = "idle"
        /\ sessions[loc[p].sid].status = "in-progress")
       => /\ resp'.op = "save" /\ resp'.code = 200
          /\ sessions'[loc[p].sid].answers = loc[p].answers
          /\ sessions'[loc[p].sid].status = "in-progress"

C33_OnlyFinalizersFinalize == [][C33_FrameStep]_vars

\* a save has just succeeded on an attempt whose deadline has passed: the
\* attempt is still in-progress, with the saved answers
C33_Witness ==
  /\ resp.op = "save" /\ resp.code = 200
  /\ resp.sid \in Stored
  /\ sessions[resp.sid].status = "in-progress"
  /\ sessions[resp.sid].expiresAt # NULL /\ now > sessions[resp.sid].expiresAt
  /\ sessions[resp.sid].answers # <<>>
  /\ sessions[resp.sid].finishedAt = NULL /\ sessions[resp.sid].score = 0

\* C34: in every reachable state a timed-out attempt is auto-submitted and
\* has a deadline, and an auto-submitted attempt has a deadline and a
\* finishedAt not earlier than it; the write of a user submit leaves the
\* attempt finished and the save of the sweeper leaves it timed-out.
C34_StatusInv ==
  \A s \in Stored :
    /\ sessions[s].status = "timed-out" =>
         sessions[s].autoSubmitted /\ sessions[s].expiresAt # NULL
    /\ sessions[s].autoSubmitted =>
         /\ sessions[s].expiresAt # NULL
         /\ sessions[s].finishedAt # NULL
         /\ sessions[s].finishedAt >= sessions[s].expiresAt

C34_WriterStep ==
  \A p \in Procs :
    /\ (pc[p] = "submit_write" /\ pc'[p] = "submit_stats")
         => sessions'[loc[p].sid].status = "finished"
    /\ (pc[p] = "sweep_save" /\ pc'[p] = "sweep_stats")
         => sessions'[loc[p].batch[1].id].status = "timed-out"

C35_FinishedAtInv ==
  \A s \in Stored : (sessions[s].finishedAt = NULL) <=> (sessions[s].status = "in-progress")

C35_FinishedAtStep ==
  \A s \in Stored :
    sessions[s].finishedAt # NULL => sessions'[s].finishedAt = sessions[s].finishedAt

C35_FinishedAt == []C35_FinishedAtInv /\ [][C35_FinishedAtStep]_vars

\* the quiz is open at time at: not before its startAt, not after its endAt
InsideWindow(quiz, at) ==
  /\ quiz.startAt = NULL \/ at >= quiz.startAt
  /\ quiz.endAt = NULL \/ at <= quiz.endAt

\* C36: a start of an existing quiz inside its availability window is
\* refused only with the single-attempt answer and only when a finished
\* attempt of the same quiz and user is stored; when none is stored the
\* start goes on to create an attempt, whatever in-progress or timed-out
\* attempts the pair has.
C36_StartStep ==
  /\ (/\ resp'.op = "start" /\ resp'.code # 200
      /\ resp'.quiz \in 1..Len(quizzes)
      /\ InsideWindow(quizzes[resp'.quiz], now))
     => /\ resp'.code = 403
        /\ \E s \in Stored : /\ sessions[s].quiz = resp'.quiz
                             /\ sessions[s].user = resp'.user
                             /\ sessions[s].status = "finished"
  /\ \A p \in Procs :
       (pc[p] = "start_save" /\ pc'[p] = "idle")
       => /\ resp'.op = "start" /\ resp'.code = 200
          /\ Len(sessions') = Len(sessions) + 1

C36_OnlyFinishedBlocks == [][C36_StartStep]_vars

\* the user has just started a second attempt of the quiz while the first is
\* still in-progress
C36_Witness ==
  /\ resp.op = "start" /\ resp.code = 200 /\ resp.sid = 2 /\ Len(sessions) = 2
  /\ sessions[1].quiz = sessions[2].quiz /\ sessions[1].user = sessions[2].user
  /\ sessions[1].status = "in-progress" /\ sessions[2].status = "in-progress"
  /\ sessions[1].startedAt < sessions[2].startedAt

C38_RetryInv ==
  /\ Len(gemini.slept) <= MAX_RETRIES
  /\ gemini.attempt <= MAX_RETRIES + 1
  /\ \A i \in 1..Len(gemini.slept) :
       /\ gemini.slept[i] = BASE_DELAY_MS * (2 ^ (i - 1))
       /\ i <= Len(gemini.log)
       /\ \/ ~gemini.log[i].response
          \/ gemini.log[i].status >= 500 /\ gemini.log[i].status < 600
  /\ \A i \in 1..Len(gemini.log) :
       (gemini.log[i].response /\ ~(gemini.log[i].status >= 500 /\ gemini.log[i].status < 600))
       => /\ i = Len(gemini.log) /\ Len(gemini.slept) = i - 1
          /\ gemini.at = "done" /\ gemini.outcome.kind = "wrapper"
          /\ gemini.outcome.status = gemini.log[i].status
  /\ gemini.at = "done" =>
       /\ gemini.outcome.kind \in {"data", "wrapper", "no_api_key"}
       /\ gemini.outcome.kind = "no_api_key" <=> ~gemini.key
       /\ gemini.outcome.kind = "no_api_key" => gemini.attempt = 0
       /\ gemini.outcome.kind = "data" => Len(gemini.log) = gemini.attempt - 1
       /\ gemini.outcome.kind = "wrapper" =>
            /\ Len(gemini.log) = gemini.attempt
            /\ gemini.outcome.status = gemini.log[Len(gemini.log)].status
       /\ Len(gemini.slept) = Max2(gemini.attempt - 1, 0)
  /\ gemini.at # "done" => gemini.outcome.kind = "none"

====
